---- MODULE Spec2Model ----
(***************************************************************************)
(* Model of the libusb_uvc streaming core:                                 *)
(*   - FrameStream (frame assembly, bounded queue, iterator, close),       *)
(*   - UVCPacketStream (isochronous transfer pool, completion callback,    *)
(*     resubmit queue, stop),                                              *)
(*   - UVCCamera.stop_async_stream / poll_async_events,                    *)
(*   - the PROBE/COMMIT negotiation (perform_probe_commit,                 *)
(*     configure_stream, _run_libusb_probe_commit).                        *)
(* Specifications: Spec (stopping a stream), CloseSpec (close() alone),    *)
(* AsmSpec (frame assembly), LossSpec (device loss), NegSpec               *)
(* (negotiation); FairSpec and LossFairSpec add the scheduling of the      *)
(* threads to CloseSpec and LossSpec.                                      *)
(***************************************************************************)
EXTENDS Integers, Sequences, FiniteSets, TLC

\* ------------------------------------------------------------------ bounds
\* Largest queue_size argument given to FrameStream.
MaxQueue == 2
\* Number of non-empty payload packets the device delivers in one run.
MaxPackets == 3
\* Number of stop calls (close / stop_async_stream / stop) the caller makes.
MaxCalls == 2
\* Largest pool of isochronous transfers (config.transfers).
MaxTransfers == 2
\* Packets read from the endpoint by the synchronous reader in one run.
MaxReads == 17
\* Alternate settings 0..MaxAlt, packet sizes 0..MaxMps.
MaxAlt == 2
MaxMps == 3

\* --------------------------------------------------------- program values
\* Python's None for optional integers (fid, pts, expected size).
NoneVal == -1
\* Header lengths the device uses: the 2-byte minimum and the 12-byte full header.
HeaderMin == 2
HeaderFull == 12
\* header_len >= 6 is needed for a PTS (FrameStream._on_packet).
PtsHeaderLen == 6
\* max_frame_size of the uncompressed frame of the model, in bytes.
FrameSize == 2
\* UVCCamera.stream: queue_size defaults to 4.
DefaultQueueSize == 4

\* Transfer completion statuses (usb1.TRANSFER_*).
Statuses == {"COMPLETED", "TIMED_OUT", "STALL", "ERROR", "NO_DEVICE"}

\* ------------------------------------------------------------ the packets
\* A UVC payload packet as _on_packet reads it: byte 0 (hl), the flag bits of
\* byte 1, the PTS field of bytes 2..5, the total length, and the payload
\* bytes that follow the header.
Packet(hl, len, fid, eof, err, ptsf, pts, data) ==
    [hl |-> hl, len |-> len, fid |-> fid, eof |-> eof, err |-> err,
     ptsf |-> ptsf, pts |-> pts, data |-> data]

\* Payload of n bytes, each byte tagged with the packet's ordinal k.
Bytes(k, n) == [i \in 1..n |-> k]

\* The packets the device may send as its k-th packet.
PacketsAt(k) ==
    { Packet(hl, hl + n, fid, eof, err, ptsf, k, Bytes(k, n)) :
        hl \in {HeaderMin, HeaderFull}, n \in 0..2, fid \in 0..1,
        eof \in BOOLEAN, err \in BOOLEAN, ptsf \in BOOLEAN }
    \cup { Packet(1, 1, 0, FALSE, FALSE, FALSE, k, <<>>),
           Packet(HeaderFull, 2, 0, FALSE, FALSE, FALSE, k, <<>>) }

\* The packets of a device that sends every frame in one packet, toggling
\* the FID from one frame to the next, or a packet with a bad header.
WholeFramePacketsAt(k) ==
    { Packet(HeaderFull, HeaderFull + FrameSize, k % 2, TRUE, FALSE, FALSE, 0,
             Bytes(0, FrameSize)),
      Packet(1, 1, 0, FALSE, FALSE, FALSE, 0, <<>>) }

\* header_len < 2 or header_len > len(packet)
BadHeader(p) == p.hl < HeaderMin \/ p.hl > p.len

\* --------------------------------------------------- FrameStream assembler
\* FrameStream.__init__: no expected size for MJPEG, else max_frame_size.
ExpectedSizeOf(subtype) ==
    IF subtype = "mjpeg" THEN NoneVal ELSE FrameSize

\* The assembler fields of a FrameStream after construction.
AsmInit(skip) ==
    [fid |-> NoneVal, bytes |-> <<>>, err |-> FALSE, pts |-> NoneVal,
     skip |-> skip, seq |-> 0]

\* _finalize_frame: does it build a CapturedFrame and hand it to _enqueue?
FinalizeEmits(a) ==
    a.fid # NoneVal /\ ~a.err /\ a.bytes # <<>> /\ a.skip = 0

\* The CapturedFrame built by _finalize_frame.
FinalizeFrame(a) ==
    [kind |-> "frame", payload |-> a.bytes, fid |-> a.fid, pts |-> a.pts,
     seq |-> a.seq + 1]

\* Mutant: _finalize_frame forgets to advance _sequence.
FinalizeStateNoSequence(a) ==
    IF a.fid = NoneVal THEN a
    ELSE [a EXCEPT
            !.skip = IF ~a.err /\ a.bytes # <<>> /\ a.skip > 0
                     THEN a.skip - 1 ELSE a.skip,
            !.bytes = <<>>, !.err = FALSE, !.fid = NoneVal, !.pts = NoneVal]

\* The assembler after _finalize_frame.
FinalizeState(a) ==
    IF a.fid = NoneVal THEN a
    ELSE [a EXCEPT
            !.skip = IF ~a.err /\ a.bytes # <<>> /\ a.skip > 0
                     THEN a.skip - 1 ELSE a.skip,
            !.seq = IF FinalizeEmits(a) THEN a.seq + 1 ELSE a.seq,
            !.bytes = <<>>, !.err = FALSE, !.fid = NoneVal, !.pts = NoneVal]

\* _on_packet, the PTS of the header: taken when the flag is set and the
\* header has at least 6 bytes.
WithPts(a, p) ==
    IF p.ptsf /\ p.hl >= PtsHeaderLen THEN [a EXCEPT !.pts = p.pts] ELSE a

\* _on_packet: the packet's FID differs from the FID of the frame in flight.
Toggles(a, p) == a.fid # NoneVal /\ p.fid # a.fid

\* Mutant: on a FID toggle the bytes of the closed frame stay in the buffer.
AfterFidKeepsBytes(a, p) ==
    LET b == WithPts(a, p) IN
    IF b.fid = NoneVal
    THEN [b EXCEPT !.fid = p.fid, !.bytes = <<>>, !.err = p.err]
    ELSE IF p.fid # b.fid
         THEN [FinalizeState(b) EXCEPT !.fid = p.fid, !.bytes = b.bytes]
         ELSE b

\* _on_packet up to and including the FID handling.
AfterFid(a, p) ==
    LET b == WithPts(a, p) IN
    IF b.fid = NoneVal
    THEN [b EXCEPT !.fid = p.fid, !.bytes = <<>>, !.err = p.err]
    ELSE IF p.fid # b.fid
         THEN [FinalizeState(b) EXCEPT !.fid = p.fid]
         ELSE b

\* _on_packet: ERR bit, payload appended, overflow against the expected size.
Accumulate(b, p, expected) ==
    LET bytes == b.bytes \o p.data IN
    [b EXCEPT !.bytes = bytes,
              !.err = b.err \/ p.err
                      \/ (expected # NoneVal /\ Len(bytes) > expected)]

\* The frames one packet makes _finalize_frame hand to _enqueue, in order:
\* the frame closed by a FID toggle, then the frame closed by EOF.
FramesOf(a, p, expected) ==
    LET b == WithPts(a, p)
        c == Accumulate(AfterFid(a, p), p, expected)
    IN  (IF Toggles(b, p) /\ FinalizeEmits(b) THEN <<FinalizeFrame(b)>> ELSE <<>>)
        \o (IF p.eof /\ FinalizeEmits(c) THEN <<FinalizeFrame(c)>> ELSE <<>>)

\* Mutant: a bad header leaves the error flag of the frame in flight alone.
OnPacketStateIgnoresBadHeader(a, p, expected) ==
    IF BadHeader(p) THEN a
    ELSE LET c == Accumulate(AfterFid(a, p), p, expected) IN
         IF p.eof THEN FinalizeState(c) ELSE c

\* The assembler after _on_packet has handled packet p on an active stream.
OnPacketState(a, p, expected) ==
    IF BadHeader(p) THEN [a EXCEPT !.err = TRUE]
    ELSE LET c == Accumulate(AfterFid(a, p), p, expected) IN
         IF p.eof THEN FinalizeState(c) ELSE c

\* The frames _on_packet hands to _enqueue for packet p.
OnPacketFrames(a, p, expected) ==
    IF BadHeader(p) THEN <<>> ELSE FramesOf(a, p, expected)

\* ------------------------------------------------------------- the queue
\* The sentinel close() puts on the queue (None).
Sentinel == [kind |-> "stop"]

\* queue.Queue.put_nowait raises queue.Full when the queue holds maxsize items.
IsFull(q, maxsize) == Len(q) >= maxsize

\* FrameStream.__init__: queue.Queue(maxsize=max(1, queue_size)).
QueueMaxOf(queue_size) == IF queue_size < 1 THEN 1 ELSE queue_size

\* ------------------------------------------------- PROBE/COMMIT negotiation
\* Control lengths perform_probe_commit knows, in its order.
SupportedLengths == <<48, 34, 26>>

\* What GET_LEN(VS_PROBE) can announce; 0 stands for no answer
\* (_get_control_length returns None, or a zero length).
AnnouncedLengths == {0, 26, 30, 34, 48}

\* The control length _run_libusb_probe_commit always uses.
AsyncLength == 34

\* Frame rates (Hz) a caller asks for and a frame advertises.
Fps == {15, 30}

\* dwFrameInterval values a device answers with (100 ns units; 0: none).
DevIntervals == {0, 333333}

\* usb.core.USBError errno values a control transfer can fail with.
UsbErrors == {"EPIPE", "EINVAL", "EIO"}

\* bFormatIndex and bFrameIndex of the selected format and frame.
FormatIndex == 1
FrameIndex == 1

\* A probe/commit block: its length and the fields the code reads or writes
\* (bmHint at 0, bFormatIndex at 2, bFrameIndex at 3, dwFrameInterval at 4);
\* rest stands for the bytes from offset 8 on.
Block(len, hint, fmt, frame, interval, rest) ==
    [len |-> len, hint |-> hint, fmt |-> fmt, frame |-> frame,
     interval |-> interval, rest |-> rest]

\* No block: the control read failed (_read_control returned None), or no
\* block has been sent yet.
NoBlock == Block(0, 0, 0, 0, 0, 0)

\* bytes(length) / bytearray(length): a block of zeros.
ZeroBlock(len) == Block(len, 0, 0, 0, 0, 0)

\* The blocks a device can return for GET_CUR(VS_PROBE) of a given length.
DeviceBlocks(len) ==
    { Block(len, h, FormatIndex, FrameIndex, i, r) :
        h \in 0..1, i \in DevIntervals, r \in 0..1 }

\* perform_probe_commit: the order of the lengths to try, given the length
\* GET_LEN announced.
RemoveLength(seq, l) == SelectSeq(seq, LAMBDA x : x # l)

\* Mutant: the announced length is put in front without being removed.
LengthsForKeepingDuplicate(announced) ==
    IF announced # 0 THEN <<announced>> \o SupportedLengths ELSE SupportedLengths

LengthsFor(announced) ==
    IF announced # 0
    THEN <<announced>> \o RemoveLength(SupportedLengths, announced)
    ELSE SupportedLengths

\* sorted(fps_values) and sorted(fps_values, reverse=True)
RECURSIVE SortAsc(_)
SortAsc(S) ==
    IF S = {} THEN <<>>
    ELSE LET m == CHOOSE x \in S : \A y \in S : x <= y
         IN  <<m>> \o SortAsc(S \ {m})

RECURSIVE SortDesc(_)
SortDesc(S) ==
    IF S = {} THEN <<>>
    ELSE LET m == CHOOSE x \in S : \A y \in S : x >= y
         IN  <<m>> \o SortDesc(S \ {m})

\* configure_stream: candidate_fps.  The requested rate first, then the
\* advertised rates not within 0.01 Hz of one already listed (ascending for
\* uncompressed formats, descending otherwise), then None.
CandidateFps(frame_rate, advertised, subtype) ==
    LET first == IF frame_rate # NoneVal /\ frame_rate > 0
                 THEN <<frame_rate>> ELSE <<>>
        sorted == IF subtype = "uncompressed"
                  THEN SortAsc(advertised) ELSE SortDesc(advertised)
        others == SelectSeq(sorted, LAMBDA f : \A i \in 1..Len(first) : first[i] # f)
    IN  first \o others \o <<NoneVal>>

\* configure_stream: bm_hints.
BmHints == <<1, 0>>

\* configure_stream: the attempts of the nested loops, in order:
\* for hint in bm_hints, for fps in candidate_fps, skipping (hint & 1, None).
RECURSIVE AttemptsOf(_, _)
AttemptsOf(hints, cands) ==
    IF hints = <<>> THEN <<>>
    ELSE LET h == Head(hints)
             kept == SelectSeq(cands, LAMBDA f : ~(f = NoneVal /\ h % 2 = 1))
         IN  [i \in 1..Len(kept) |-> <<h, kept[i]>>] \o AttemptsOf(Tail(hints), cands)

\* _perform_probe_commit_with_length, lines 1169-1179: with a positive frame
\* rate the code calls frame.pick_interval; frame is a FrameInfo, and FrameInfo
\* defines no pick_interval (the def at line 313 is in the body of
\* StillFrameInfo), so the call raises AttributeError, in strict mode and out
\* of it (only ValueError is caught there).
PickIntervalRaises(frame_rate) == frame_rate # NoneVal /\ frame_rate > 0

\* _perform_probe_commit_with_length: the template, GET_CUR(VS_PROBE), else
\* GET_DEF, else bytes(length); cur and def are NoBlock when the read fails.
TemplateOf(cur, def, len) ==
    IF cur # NoBlock THEN cur
    ELSE IF def # NoBlock THEN def
    ELSE ZeroBlock(len)

\* _perform_probe_commit_with_length: the payload of SET_CUR(VS_PROBE) when
\* no interval was picked: zeros, bmHint 0, the format and frame indices.
ProbePayload(len) == Block(len, 0, FormatIndex, FrameIndex, 0, 0)

\* Mutant: the payload that was sent is committed, whatever was read back.
NegotiatedBytesSent(readBack, payload) == payload

\* _perform_probe_commit_with_length: the bytes to commit, the read-back or,
\* when the read failed, the payload that was sent.
NegotiatedBytes(readBack, payload) ==
    IF readBack = NoBlock THEN payload ELSE readBack

\* configure_stream: _committed_frame_interval.
CommittedInterval(info, default_interval) ==
    IF info.interval # 0 THEN info.interval ELSE default_interval

\* _run_libusb_probe_commit: the probe buffer, the template (or zeros) with
\* bmHint 1, the indices and the interval written over it.
AsyncPayload(template, interval) ==
    LET base == IF template = NoBlock THEN ZeroBlock(AsyncLength) ELSE template
    IN  [base EXCEPT !.hint = 1, !.fmt = FormatIndex, !.frame = FrameIndex,
                     !.interval = interval]

\* The negotiation before configure_stream is called.
NegStart(frame_rate, advertised, subtype, default_interval, strict_fps) ==
    [pc |-> "idle", fps |-> frame_rate, advertised |-> advertised,
     strict |-> strict_fps,
     subtype |-> subtype, defaultInterval |-> default_interval,
     attempts |-> <<>>, idx |-> 0, announced |-> 0, lengths |-> <<>>,
     tried |-> <<>>, lastError |-> "none", error |-> "none",
     path |-> "none", claimed |-> FALSE, running |-> FALSE,
     template |-> NoBlock,
     payload |-> NoBlock, readBack |-> NoBlock,
     committed |-> NoBlock, probes |-> <<>>, committedInterval |-> 0]

\* No negotiation is modelled.
NegIdle == NegStart(NoneVal, {}, "uncompressed", 0, FALSE)

\* ------------------------------------------ alternate-setting selection
\* An AltSettingInfo: whether the setting has an endpoint (endpoint_address
\* is not None), whether that endpoint is isochronous, its max_packet_size.
AltKinds ==
    {[ep |-> FALSE, iso |-> FALSE, mps |-> 0]}
    \cup {[ep |-> TRUE, iso |-> i, mps |-> m] : i \in BOOLEAN, m \in 0..MaxMps}

\* The alt_settings of a streaming interface, by alternate_setting.
AltSets == [0..MaxAlt -> AltKinds]

\* dwMaxPayloadTransferSize of the committed block and max_frame_size.
Sizes == 0..(MaxMps + 1)

\* configure_stream: dwMaxPayloadTransferSize or frame.max_frame_size.
RequiredPayload(payload, max_frame_size) ==
    IF payload # NoneVal /\ payload # 0 THEN payload ELSE max_frame_size

\* The setting of S with the least (most) max_packet_size, the first in the
\* list among equals.
FirstLeast(alts, S) ==
    CHOOSE a \in S : \A b \in S :
        alts[a].mps < alts[b].mps \/ (alts[a].mps = alts[b].mps /\ a <= b)

FirstMost(alts, S) ==
    CHOOSE a \in S : \A b \in S :
        alts[a].mps > alts[b].mps \/ (alts[a].mps = alts[b].mps /\ a <= b)

\* StreamingInterface.select_alt_for_payload
SelectAltForPayload(alts, required_payload) ==
    LET candidates == {a \in DOMAIN alts : alts[a].mps # 0}
        fit == {a \in candidates : alts[a].mps >= required_payload}
    IN  IF candidates = {} THEN NoneVal
        ELSE IF fit # {} THEN FirstLeast(alts, fit)
        ELSE FirstMost(alts, candidates)

\* StreamingInterface.get_alt
GetAlt(alts, alternate_setting) ==
    IF alternate_setting \in DOMAIN alts THEN alternate_setting ELSE NoneVal

\* configure_stream: the alternate setting it goes on with.
ChosenAlt(alts, payload, max_frame_size, alt_setting) ==
    IF alt_setting # NoneVal
    THEN GetAlt(alts, alt_setting)
    ELSE SelectAltForPayload(alts, RequiredPayload(payload, max_frame_size))

\* No alternate setting has been selected.
SelIdle ==
    [pc |-> "idle", alts |-> <<>>, payload |-> NoneVal, mfs |-> 0,
     explicit |-> NoneVal, alt |-> NoneVal]

\* ------------------------------------------------- read_frame, pure parts
\* self._max_payload: the longest packet of the model.
MaxPayload == HeaderFull + FrameSize

\* read_frame: the expected size is the frame's max_frame_size, none for MJPEG.
ReadExpectedOf(subtype, max_frame_size) ==
    IF subtype = "mjpeg" THEN NoneVal ELSE max_frame_size

\* read_frame: max(4, (expected_size // self._max_payload) + 16)
MaxPacketsOf(expected_size) ==
    LET m == (expected_size \div MaxPayload) + 16 IN IF m > 4 THEN m ELSE 4

\* The locals of read_frame when its loop starts: frame_bytes (its length and,
\* as history, whether a packet with the ERR bit is among the packets it was
\* built from), current_fid, err_seen, packets_seen.
RfLocals ==
    [len |-> 0, fromErr |-> FALSE, fid |-> NoneVal, err |-> FALSE, seen |-> 0]

\* No frame returned.
NoFrame == [kind |-> "none"]

\* No packet ended the last call by a FID toggle.
NoToggle == [fid |-> NoneVal, len |-> 0]

\* The reader between two calls of read_frame. toggle is history: the FID
\* and the payload length of the packet whose FID toggle made the last call
\* return.
RfIdle ==
    [pc |-> "idle", expected |-> NoneVal, loc |-> RfLocals, reads |-> 0,
     ret |-> NoFrame, toggle |-> NoToggle]

\* The CapturedFrame read_frame returns.
ReadFrameOf(loc, pts) ==
    [kind |-> "frame", len |-> loc.len, fid |-> loc.fid, pts |-> pts,
     fromErr |-> loc.fromErr]

\* read_frame, the head of one turn of the loop after a good header: ERR bit,
\* then a new frame when none is in flight or when the FID toggles.
ReadAfterFid(loc, p) ==
    IF loc.fid = NoneVal \/ p.fid # loc.fid
    THEN [len |-> 0, fromErr |-> FALSE, fid |-> p.fid, err |-> p.err, seen |-> 0]
    ELSE [loc EXCEPT !.err = loc.err \/ p.err]

\* read_frame: the FID toggles and the frame in flight is returned.
ReadToggleReturns(loc, p, expected) ==
    /\ loc.fid # NoneVal /\ p.fid # loc.fid
    /\ ~(loc.err \/ p.err)
    /\ (expected = NoneVal \/ loc.len = expected)

\* read_frame: the payload is appended and the packet counted.
ReadAccumulate(loc, p) ==
    [loc EXCEPT !.len = loc.len + Len(p.data),
                !.fromErr = loc.fromErr \/ p.err,
                !.seen = loc.seen + 1]

\* read_frame: the frame is abandoned after too many packets.
ReadAbandons(loc, expected) ==
    expected # NoneVal /\ expected # 0 /\ MaxPayload # 0
    /\ loc.seen > MaxPacketsOf(expected)

\* read_frame at EOF: the frame is dropped.
ReadEofDrops(loc, expected) ==
    loc.err \/ (expected # NoneVal /\ loc.len # expected)

\* read_frame: the PTS of the packet with EOF.
ReadPts(p) == IF p.ptsf /\ p.hl >= PtsHeaderLen THEN p.pts ELSE NoneVal

\* ------------------------------------------------------ control values
\* A byte string is a sequence of bytes, least significant first; <<>> is
\* the empty string and also None (a control read that failed).  An optional
\* integer is <<>> for None and <<v>> for v.

\* int.from_bytes(data, "little", signed=False)
RECURSIVE UnsignedOf(_)
UnsignedOf(data) ==
    IF data = <<>> THEN 0 ELSE Head(data) + 256 * UnsignedOf(Tail(data))

\* Every bit of a byte string inverted.
Complement(data) == [i \in 1..Len(data) |-> 255 - data[i]]

\* int.from_bytes(data, "little", signed=True): two's complement.
SignedOf(data) ==
    IF data # <<>> /\ data[Len(data)] >= 128
    THEN -UnsignedOf(Complement(data)) - 1
    ELSE UnsignedOf(data)

FromBytes(data, signed) == IF signed THEN SignedOf(data) ELSE UnsignedOf(data)

\* The n low bytes of u >= 0.
RECURSIVE Digits(_, _)
Digits(u, n) ==
    IF n = 0 THEN <<>> ELSE <<u % 256>> \o Digits(u \div 256, n - 1)

\* int(value).to_bytes(n, "little", signed=signed), for a value that fits.
ToBytes(v, n, signed) ==
    IF v >= 0 THEN Digits(v, n) ELSE Complement(Digits(-v - 1, n))

RECURSIVE Pow256(_)
Pow256(n) == IF n = 0 THEN 1 ELSE 256 * Pow256(n - 1)

\* to_bytes raises OverflowError unless the value fits n bytes; every
\* integer of the model fits 4 signed bytes, and every one that is not
\* negative fits 4 unsigned bytes.
Fits(v, n, signed) ==
    IF signed
    THEN n >= 4 \/ (-(Pow256(n) \div 2) <= v /\ v < Pow256(n) \div 2)
    ELSE v >= 0 /\ (n >= 4 \/ v < Pow256(n))

\* _initialise._bytes_to_int
BytesToInt(data, signed) ==
    IF data = <<>> \/ Len(data) > 4 THEN <<>> ELSE <<FromBytes(data, signed)>>

\* a > b as unsigned integers, for byte strings of one length: decided by
\* the most significant byte in which they differ.
RECURSIVE UnsignedGreater(_, _)
UnsignedGreater(a, b) ==
    IF a = <<>> THEN FALSE
    ELSE LET n == Len(a) IN
         IF a[n] # b[n] THEN a[n] > b[n]
         ELSE UnsignedGreater(SubSeq(a, 1, n - 1), SubSeq(b, 1, n - 1))

\* Mutant: the sign is never inferred.
ShouldUseSignedNever(min_raw, max_raw) == FALSE

\* _initialise._should_use_signed
ShouldUseSigned(min_raw, max_raw) ==
    /\ min_raw # <<>> /\ max_raw # <<>>
    /\ Len(min_raw) = Len(max_raw)
    /\ Len(min_raw) \in {2, 4}
    /\ UnsignedGreater(min_raw, max_raw)

\* _initialise: the ControlEntry built from what the device answered to
\* GET_LEN (0: no answer), GET_MIN, GET_MAX, GET_RES and GET_DEF; gen tells
\* the entry objects of one enumeration from those of another.
EntryOf(length, min_raw, max_raw, step_raw, default_raw, gen) ==
    LET signed == ShouldUseSigned(min_raw, max_raw) IN
    [minimum |-> BytesToInt(min_raw, signed),
     maximum |-> BytesToInt(max_raw, signed),
     step |-> BytesToInt(step_raw, signed),
     default |-> BytesToInt(default_raw, signed),
     length |-> IF length # 0 THEN length
                ELSE IF default_raw # <<>> THEN Len(default_raw)
                ELSE Len(min_raw),
     raw_minimum |-> min_raw, raw_maximum |-> max_raw,
     raw_default |-> default_raw, gen |-> gen]

\* get_control / set_control: the length used when entry.length is unset,
\* fallback being 4 in get_control and 2 in set_control.
LengthOf(entry, fallback) ==
    IF entry.length # 0 THEN entry.length
    ELSE IF entry.raw_default # <<>> THEN Len(entry.raw_default)
    ELSE IF entry.raw_maximum # <<>> THEN Len(entry.raw_maximum)
    ELSE IF entry.raw_minimum # <<>> THEN Len(entry.raw_minimum)
    ELSE fallback

\* get_control / set_control: signed
IsSigned(entry) == entry.minimum # <<>> /\ entry.minimum[1] < 0

\* Mutant: the value is always encoded unsigned over 2 bytes.
SetPayloadTwoBytes(entry, value) == ToBytes(value, 2, FALSE)

\* set_control, raw=False: the payload of SET_CUR.
SetPayload(entry, value) ==
    LET length == LengthOf(entry, 2)
    IN  ToBytes(value, IF length < 1 THEN 1 ELSE length, IsSigned(entry))

\* get_control, raw=False: what is returned for the bytes read; an integer
\* for at most 4 bytes, else the bytes.
GetResult(entry, data) ==
    IF Len(data) <= 4
    THEN [kind |-> "int", v |-> FromBytes(data, IsSigned(entry)), data |-> <<>>]
    ELSE [kind |-> "bytes", v |-> 0, data |-> data]

\* read_vc_control / write_vc_control: the request goes over the streaming
\* handle when there is one and it holds the claim of the VC interface
\* (the entry's interface is the camera's VC interface).
ViaHandle(streaming, control_claimed) == streaming /\ control_claimed

\* --------------------------------------------------- the device's control
\* The one control of the device: what GET_INFO answers (0: the control is
\* skipped by _initialise), its size in bytes, whether GET_LEN answers, and
\* the ranges it reports (none: GET_MIN/MAX/RES/DEF fail).
ControlSizes == {1, 2, 4, 8}
Devices ==
    [info : {0, 3}, size : ControlSizes, lenKnown : BOOLEAN,
     ranges : {"none", "unsigned", "signed"}]

\* _initialise: length and length_hint for the device.
DevLen(dev) == IF dev.lenKnown THEN dev.size ELSE 0
LengthHint(dev) == IF DevLen(dev) = 0 THEN 4 ELSE DevLen(dev)

\* The first n bytes of a byte string (a control read of n bytes).
Take(data, n) == SubSeq(data, 1, IF n < Len(data) THEN n ELSE Len(data))

\* What the device answers to GET_MIN, GET_MAX, GET_RES, GET_DEF (and what
\* its control holds at first, the default), read with the length hint.
DevRaw(dev, which) ==
    LET signed == dev.ranges = "signed"
        v == CASE which = "min" -> IF signed THEN -2 ELSE 0
               [] which = "max" -> IF signed THEN 2 ELSE 100
               [] which = "step" -> 1
               [] OTHER -> 1
    IN  IF dev.ranges = "none" THEN <<>>
        ELSE Take(ToBytes(v, dev.size, signed), LengthHint(dev))

\* No operation yet.
NoOp ==
    [op |-> "none", refresh |-> FALSE, raw |-> FALSE, value |-> <<>>,
     via |-> "none", claims |-> 0, requests |-> 0, sent |-> <<>>,
     result |-> <<>>, error |-> "none", entries |-> <<>>]

\* A camera (with or without an asynchronous stream, whose handle holds the
\* claim of the VC interface or not) before any control operation.
CtlStart(streaming, control_claimed, dev) ==
    [streaming |-> streaming, controlClaimed |-> control_claimed,
     dev |-> dev, stored |-> ToBytes(1, dev.size, FALSE),
     cache |-> <<>>, gen |-> 0, nOps |-> 0, last |-> NoOp, prev |-> NoOp]

\* No control operation is modelled.
\* ---------------------------------------------------------- the quirks
\* A definition of a quirks file's "controls" list: selector, expected_info
\* and expected_length are 0 when the key is absent; its name is its place
\* in the list.
QuirkSelectors == {5, 9}
InfoBytes == {1, 3}
PayloadLen == 2
Definitions ==
    [selector : {0} \cup QuirkSelectors, expected_info : {0, 3},
     expected_length : {0, PayloadLen}]

\* _initialise._match_get_info: <<>> for None, else <<score>>.
MatchGetInfo(info_value, definition) ==
    IF definition.expected_info # 0
    THEN IF info_value # definition.expected_info THEN <<>> ELSE <<2>>
    ELSE <<0>>

\* _initialise._match_length
MatchLength(payload_len, definition) ==
    IF definition.expected_length # 0
    THEN IF payload_len # definition.expected_length THEN <<>> ELSE <<2>>
    ELSE <<0>>

\* _initialise._consume_definition, the body of its loop: <<>> when the
\* definition is passed over (`continue`), else <<score>>.
ScoreOf(definition, control) ==
    IF definition.selector # 0 /\ definition.selector # control.selector
    THEN <<>>
    ELSE LET base == IF definition.selector # 0 THEN 5 ELSE 0
             info == MatchGetInfo(control.info, definition)
             len_ == MatchLength(PayloadLen, definition)
         IN  IF info = <<>> \/ len_ = <<>> THEN <<>>
             ELSE IF base + info[1] + len_[1] <= 0 THEN <<>>
             ELSE <<base + info[1] + len_[1]>>

\* The definitions of the list that _consume_definition may take for the
\* control: not marked used, not passed over.
Candidates(definitions, used, control) ==
    {i \in 1..Len(definitions) :
        ~used[i] /\ ScoreOf(definitions[i], control) # <<>>}

\* _initialise._consume_definition: the place of best_def in the list (0:
\* None); `score > best_score` keeps the first of the best.
ConsumeDefinition(definitions, used, control) ==
    LET cands == Candidates(definitions, used, control) IN
    IF cands = {} THEN 0
    ELSE CHOOSE i \in cands :
           \A j \in cands :
              \/ ScoreOf(definitions[j], control)[1]
                   < ScoreOf(definitions[i], control)[1]
              \/ (ScoreOf(definitions[j], control)[1]
                    = ScoreOf(definitions[i], control)[1] /\ i <= j)

\* No enumeration under way.
QkIdle ==
    [definitions |-> <<>>, units |-> <<>>, unit |-> 0, control |-> 0,
     used |-> <<>>, named |-> <<>>]

\* ------------------------------------------------------ still capture
\* The frames of the topology and the max_frame_size each was parsed with.
StillFrames == {1, 2}
ParsedSizes == [f \in StillFrames |-> 600 + 100 * f]

\* What capture_still_image reads and writes of the camera (0: None).
CamOf(claimed, active_alt, endpoint, max_payload, frame) ==
    [claimed |-> claimed, active_alt |-> active_alt,
     endpoint_address |-> endpoint, max_payload |-> max_payload,
     format |-> IF frame = 0 THEN 0 ELSE 1, frame |-> frame]

\* No stream configured, nothing claimed.
CamIdle == CamOf(FALSE, 0, 0, 0, 0)

\* _still_alt_info: None, or an alternate setting with its endpoint (0:
\* none) and wMaxPacketSize.
NoAlt == [alternate_setting |-> 0, endpoint_address |-> 0, max_packet_size |-> 0]

StillIdle ==
    [cam |-> CamIdle, sizes |-> ParsedSizes,
     still_frame |-> 0, still_frame_size |-> 0, still_alt_info |-> NoAlt,
     before |-> [cam |-> CamIdle, sizes |-> ParsedSizes],
     outcome |-> "none", captures |-> 0]

\* ------------------------------------------------- the scoped VC claim
\* The kernel driver is bound to the VC interface, nothing is claimed,
\* nothing was done yet.
VcIdle ==
    [driver |-> TRUE, claimed |-> FALSE,
     detaches |-> 0, attaches |-> 0, claims |-> 0, releases |-> 0,
     outcome |-> "none", scopes |-> 0]

\* ------------------------------------------------ the descriptor parser
\* UVC_CONTROL_MAPPING["Processing Unit"]
ProcessingUnitNames ==
    <<"Backlight Compensation", "Brightness", "Contrast", "Gain",
      "Power Line Frequency", "Hue", "Saturation", "Sharpness", "Gamma",
      "White Balance Temperature", "White Balance Temperature, Auto">>

\* control_map.get(selector, f"Unknown Control Selector {selector}"): the
\* text, and the number formatted into it (0: none).
ControlName(selector) ==
    IF selector \in 1..Len(ProcessingUnitNames)
    THEN <<ProcessingUnitNames[selector], 0>>
    ELSE <<"Unknown Control Selector", selector>>

RECURSIVE Pow2(_)
Pow2(n) == IF n = 0 THEN 1 ELSE 2 * Pow2(n - 1)

\* (bitmap >> i) & 1, bitmap being int.from_bytes(bitmap_bytes, "little").
BitSet(bitmap_bytes, i) ==
    (bitmap_bytes[(i \div 8) + 1] \div Pow2(i % 8)) % 2 = 1

\* Mutant: the selector is the number of the bit.
SelectorOfBitSame(i) == i

\* `selector = i + 1`
SelectorOfBit(i) == i + 1

\* _parse_processing_unit: <<>> for None, else <<unit>>, the unit's controls
\* in the order of their bits. desc[k] of the source is desc[k + 1] here.
ParseProcessingUnitOf(desc) ==
    IF Len(desc) < 10 THEN <<>>
    ELSE LET bControlSize == desc[8]
             ctrl_start == 8
             ctrl_end == ctrl_start + bControlSize
             bitmap_bytes == SubSeq(desc, ctrl_start + 1, ctrl_end)
             bits == [k \in 1..(8 * bControlSize) |-> k - 1]
             set == IF bControlSize > 0 /\ ctrl_end <= Len(desc)
                    THEN SelectSeq(bits, LAMBDA i : BitSet(bitmap_bytes, i))
                    ELSE <<>>
         IN  <<[unit_id |-> desc[4],
                controls |->
                    [k \in 1..Len(set) |->
                        [selector |-> SelectorOfBit(set[k]),
                         name |-> ControlName(SelectorOfBit(set[k]))]]]>>

\* Nothing parsed.
PuIdle == [desc |-> <<>>, unit |-> <<>>, parsed |-> FALSE]

\* --------------------------------------- start_async_stream's handle
\* A libusb1 handle with its context: open or closed, the interfaces
\* claimed on it, the transfers submitted on it.
NoHandle == [open |-> FALSE, ctx |-> FALSE, vs |-> FALSE, vc |-> FALSE,
             submitted |-> 0]

\* A configured camera with no asynchronous stream.
SaIdle == [asyncStream |-> FALSE, controlIface |-> TRUE,
           committedInterval |-> 1, claimed |-> TRUE, fresh |-> NoHandle,
           stray |-> 0, starts |-> 0, outcome |-> "none", step |-> "none"]

\* ------------------------------------------------ concurrent teardown
\* Two threads calling FrameStream.close(), and the poll thread.
Callers == {"caller1", "caller2"}
RaceThreads == Callers \cup {"poll"}

\* No stream entered, no thread in a call, nothing torn down.
RaceIdle ==
    [fsActive |-> FALSE, pollThread |-> FALSE, asyncStream |-> FALSE,
     asyncHandle |-> FALSE, psActive |-> FALSE,
     pc |-> [t \in RaceThreads |-> "idle"],
     cancels |-> 0, releases |-> 0, closes |-> 0]

CtlIdle ==
    CtlStart(FALSE, FALSE,
             [info |-> 0, size |-> 1, lenKnown |-> FALSE, ranges |-> "none"])

\* ------------------------------------------------------------- the state
VARIABLES
    \* FrameStream
    fsActive,      \* _active
    stopEvent,     \* _stop_event
    queue,         \* _queue: frames and the sentinel
    queueMax,      \* maxsize of _queue
    expected,      \* _expected_size (NoneVal: none)
    asm,           \* _current_fid, _frame_bytes, _frame_error, _current_pts,
                   \* _skip_initial, _sequence
    \* UVCPacketStream
    pool,          \* the transfers of the pool (config.transfers of them)
    psActive,      \* _active
    xfer,          \* state of each transfer of the pool
    xferStatus,    \* getStatus() of each transfer whose callback ran in the
                   \* current call of handle_events_and_resubmit
    resubmitQ,     \* _resubmit_queue: transfer ids, 0 for None
    \* UVCCamera
    asyncStream,   \* _async_stream is not None
    handleOpen,    \* _async_handle is open
    controlClaimed,\* _control_claimed
    needsReset,    \* _needs_device_reset
    \* the device
    devPresent,
    \* the poll thread (FrameStream._poll_loop and what it calls)
    pollPc, cbXfer, cbLeft, pend,
    \* the caller thread (close / stop_async_stream)
    callerPc, callerOp, calls, callSnap,
    \* the consumer thread (FrameStream.__iter__)
    iterPc, received,
    \* history: USB effects in the order they happen, packets delivered
    log, pktCount, closedAt, relSnap,
    \* the PROBE/COMMIT negotiation (configure_stream, start_async_stream)
    neg,
    \* configure_stream after the commit: the alternate setting selected
    sel,
    \* the synchronous reader (read_frame): its locals and what it returned
    rf,
    \* the controls: the camera's cache, the device's control, the last two
    \* control operations and what they did
    ctl,
    \* the teardown under concurrent callers: the attributes that close(),
    \* stop_async_stream() and UVCPacketStream.stop() test and write, each
    \* thread's position, and how often each part of the teardown ran
    race,
    \* the quirk matching of one enumeration (_initialise): the quirks file,
    \* the units, the position in them, the used marks, the names given
    qk,
    \* the camera around capture_still_image: its streaming attributes, the
    \* frames' max_frame_size, the still configuration, the last outcome
    still,
    \* the VC interface under claim_vc_interface and list_control_units: the
    \* kernel driver, the claim, and how often each was touched
    vc,
    \* the descriptor parser: the descriptor given to _parse_processing_unit
    \* and the unit it returned
    pu,
    \* start_async_stream's fresh libusb1 handle: what the last call opened,
    \* claimed and submitted on it, how the call ended, and the handles no
    \* attribute of the camera refers to any more
    sa

vars == <<fsActive, stopEvent, queue, queueMax, expected, asm, pool, psActive, xfer,
          xferStatus,
          resubmitQ, asyncStream, handleOpen, controlClaimed, needsReset,
          devPresent, pollPc, cbXfer, cbLeft, pend, callerPc, callerOp, calls,
          callSnap, iterPc, received, log, pktCount, closedAt, relSnap, neg,
          sel, rf, ctl, race, qk, still, vc, pu, sa>>

fsVars == <<fsActive, stopEvent, queue, queueMax, expected, asm>>
psVars == <<pool, psActive, xfer, xferStatus, resubmitQ>>
camVars == <<asyncStream, handleOpen, controlClaimed, needsReset>>
pollVars == <<pollPc, cbXfer, cbLeft, pend>>
callerVars == <<callerPc, callerOp, calls, callSnap>>
iterVars == <<iterPc, received>>
negVars == <<neg, sel>>
moreVars == <<qk, still, vc, pu, sa>>
auxVars == <<ctl, race, moreVars>>

\* Nothing but the stream, the negotiation, the reader has happened.
MoreIdle ==
    /\ qk = QkIdle
    /\ still = StillIdle
    /\ vc = VcIdle
    /\ pu = PuIdle
    /\ sa = SaIdle
syncVars == <<rf, auxVars>>

Transfers == 1..MaxTransfers

\* No callback has read a status.
NoStatus == [i \in Transfers |-> "none"]

\* An effect on the USB side, and the thread that made it.
Effect(thread, what) == <<thread, what>>

\* FrameStream.__init__ followed by nothing else: the stream is built, not
\* entered.  The arguments (queue_size, skip_initial, format) are inputs.
Built(nTransfers, sizes, subtypes, skips) ==
    /\ fsActive = FALSE
    /\ stopEvent = FALSE
    /\ queue = <<>>
    /\ \E qs \in sizes : queueMax = QueueMaxOf(qs)
    /\ \E st \in subtypes : expected = ExpectedSizeOf(st)
    /\ \E sk \in skips : asm = AsmInit(sk)
    /\ pool = 1..nTransfers
    /\ psActive = FALSE
    /\ xfer = [i \in Transfers |-> "idle"]
    /\ xferStatus = NoStatus
    /\ resubmitQ = <<>>
    /\ asyncStream = FALSE
    /\ handleOpen = FALSE
    /\ controlClaimed = FALSE
    /\ needsReset = FALSE
    /\ devPresent = TRUE
    /\ pollPc = "none"
    /\ cbXfer = 0
    /\ cbLeft = 0
    /\ pend = <<>>
    /\ callerPc = "idle"
    /\ callerOp = "none"
    /\ calls = 0
    /\ callSnap = [stopped |-> FALSE, effects |-> 0]
    /\ iterPc = "none"
    /\ received = <<>>
    /\ log = <<>>
    /\ pktCount = 0
    /\ closedAt = [done |-> FALSE, seqs |-> {}, n |-> 0, inFlight |-> {}]
    /\ relSnap = [op |-> "none", poll |-> "none"]
    /\ rf = RfIdle
    /\ sel = SelIdle

\* A stream of uncompressed frames that skips no initial frame, over a pool
\* of one transfer.
Init ==
    /\ Built(1, (0..MaxQueue) \cup {DefaultQueueSize}, {"uncompressed"}, {0})
    /\ neg = NegIdle
    /\ ctl = CtlIdle
    /\ race = RaceIdle
    /\ MoreIdle

\* The same stream over every pool size.
LossInit ==
    /\ \E n \in 1..MaxTransfers : Built(n, {1}, {"uncompressed"}, {0})
    /\ neg = NegIdle
    /\ ctl = CtlIdle
    /\ race = RaceIdle
    /\ MoreIdle

\* Every kind of stream, over a pool of one transfer.
AsmInitial ==
    /\ Built(1, 0..MaxQueue, {"uncompressed", "mjpeg", "frame_based"}, 0..1)
    /\ neg = NegIdle
    /\ ctl = CtlIdle
    /\ race = RaceIdle
    /\ MoreIdle

\* ------------------------------------------------------ helper operators
RepeatSeq(x, n) == [i \in 1..n |-> x]

\* Number of effects a thread has made so far.
EffectsBy(thread, l) == Cardinality({i \in 1..Len(l) : l[i][1] = thread})

Has(l, what) == \E i \in 1..Len(l) : l[i][2] = what

\* Sequence numbers of the frames in a queue.
SeqsIn(q) == {q[i].seq : i \in {j \in 1..Len(q) : q[j].kind = "frame"}}

\* UVCPacketStream.stop, when the stream is active: the flag is cleared, None
\* goes on the resubmit queue, every submitted transfer is cancelled.
PsStopXfer(x) ==
    [i \in Transfers |-> IF x[i] = "submitted" THEN "cancelled" ELSE x[i]]

PsStopCancels(x) == Cardinality({i \in Transfers : x[i] = "submitted"})

\* UVCPacketStream.stop by the given thread.
PsStop(thread) ==
    IF ~psActive
    THEN UNCHANGED <<psVars, log>>
    ELSE /\ psActive' = FALSE
         /\ resubmitQ' = Append(resubmitQ, 0)
         /\ xfer' = PsStopXfer(xfer)
         /\ xferStatus' = xferStatus
         /\ log' = log \o RepeatSeq(Effect(thread, "cancel"), PsStopCancels(xfer))
         /\ pool' = pool

\* ------------------------------------------------------ the caller thread
\* FrameStream.__enter__: configure_stream, start_async_stream (fresh handle,
\* claims, transfers submitted), the poll thread started.
Enter ==
    /\ callerPc = "idle" /\ pollPc = "none" /\ ~fsActive
    /\ fsActive' = TRUE
    /\ stopEvent' = FALSE
    /\ psActive' = TRUE
    /\ xfer' = [i \in Transfers |-> IF i \in pool THEN "submitted" ELSE "idle"]
    /\ xferStatus' = NoStatus
    /\ resubmitQ' = <<>>
    /\ pool' = pool
    /\ asyncStream' = TRUE
    /\ handleOpen' = TRUE
    /\ \E c \in BOOLEAN : controlClaimed' = c
    /\ needsReset' = TRUE
    /\ pollPc' = "loop"
    /\ iterPc' = "wait"
    /\ UNCHANGED <<queue, queueMax, expected, asm, devPresent, cbXfer, cbLeft,
                   pend, callerVars, received, log, pktCount, closedAt, relSnap, negVars, syncVars>>

\* The caller calls FrameStream.close() or UVCCamera.stop_async_stream().
Call(op) ==
    /\ callerPc = "idle" /\ pollPc # "none" /\ calls < MaxCalls
    /\ calls' = calls + 1
    /\ callerOp' = op
    /\ callerPc' = IF op = "close" THEN "close" ELSE "sa_begin"
    /\ callSnap' = [stopped |-> IF op = "close" THEN ~fsActive ELSE ~asyncStream,
                    effects |-> EffectsBy("caller", log)]
    /\ UNCHANGED <<fsVars, psVars, camVars, devPresent, pollVars, iterVars,
                   log, pktCount, closedAt, relSnap, negVars, syncVars>>

\* Mutant: close without the early return on a stream that is not active.
FsCloseBeginUnguarded ==
    /\ callerPc = "close"
    /\ stopEvent' = TRUE
    /\ fsActive' = FALSE
    /\ callerPc' = "sentinel"
    /\ log' = Append(log, Effect("caller", "flag"))
    /\ UNCHANGED <<queue, queueMax, expected, asm, psVars, camVars, devPresent,
                   pollVars, callerOp, calls, callSnap, iterVars, pktCount,
                   closedAt, relSnap, negVars, syncVars>>

\* FrameStream.close: return when not active; else set the stop event and
\* clear the active flag.
FsCloseBegin ==
    /\ callerPc = "close"
    /\ IF ~fsActive
       THEN /\ callerPc' = "idle"
            /\ UNCHANGED <<fsActive, stopEvent, closedAt, log>>
       ELSE /\ stopEvent' = TRUE
            /\ fsActive' = FALSE
            /\ callerPc' = "sentinel"
            /\ log' = Append(log, Effect("caller", "flag"))
            /\ closedAt' = [done |-> TRUE, seqs |-> SeqsIn(queue),
                            n |-> Len(received),
                            inFlight |-> IF pollPc \in {"enq_put", "enq_evict", "enq_put2"}
                                         THEN {Head(pend).seq} ELSE {}]
    /\ UNCHANGED <<queue, queueMax, expected, asm, psVars, camVars, devPresent,
                   pollVars, callerOp, calls, callSnap, iterVars, pktCount,
                   relSnap, negVars, syncVars>>

\* FrameStream.close: put_nowait(None), dropped when the queue is full.
FsCloseSentinel ==
    /\ callerPc = "sentinel"
    /\ queue' = IF IsFull(queue, queueMax) THEN queue ELSE Append(queue, Sentinel)
    /\ callerPc' = "sa_begin"
    /\ UNCHANGED <<fsActive, stopEvent, queueMax, expected, asm, psVars, camVars,
                   devPresent, pollVars, callerOp, calls, callSnap, iterVars,
                   log, pktCount, closedAt, relSnap, negVars, syncVars>>

\* Where the caller goes when stop_async_stream returns.
AfterStopAsync == IF callerOp = "close" THEN "stop_streaming" ELSE "idle"

\* UVCCamera.stop_async_stream: return when there is no stream; else stop the
\* packet stream (UVCPacketStream.stop).
StopAsyncBegin ==
    /\ callerPc = "sa_begin"
    /\ IF ~asyncStream
       THEN /\ callerPc' = AfterStopAsync
            /\ UNCHANGED <<psVars, log>>
       ELSE /\ callerPc' = "sa_release"
            /\ PsStop("caller")
    /\ UNCHANGED <<fsVars, camVars, devPresent, pollVars, callerOp, calls,
                   callSnap, iterVars, pktCount, closedAt, relSnap, negVars, syncVars>>

\* stop_async_stream: release VC, alt 0, release VS, close the handle and the
\* context, forget the stream.
StopAsyncRelease ==
    /\ callerPc = "sa_release"
    /\ log' = log
              \o (IF controlClaimed THEN <<Effect("caller", "releaseVC")>> ELSE <<>>)
              \o <<Effect("caller", "alt0"), Effect("caller", "releaseVS"),
                   Effect("caller", "closeHandle")>>
    /\ handleOpen' = FALSE
    /\ asyncStream' = FALSE
    /\ controlClaimed' = FALSE
    /\ callerPc' = "sa_reattach"
    /\ relSnap' = [op |-> callerOp, poll |-> pollPc]
    /\ UNCHANGED <<fsVars, psVars, needsReset, devPresent, pollVars, callerOp,
                   calls, callSnap, iterVars, pktCount, closedAt, negVars, syncVars>>

\* stop_async_stream: the reattach steps for VC and VS (attach_kernel_driver
\* where is_kernel_driver_active says no), then _reset_device.
StopAsyncReattach ==
    /\ callerPc = "sa_reattach"
    /\ log' = log
              \o <<Effect("caller", "reattachVC"), Effect("caller", "reattachVS")>>
              \o (IF needsReset THEN <<Effect("caller", "reset")>> ELSE <<>>)
    /\ needsReset' = FALSE
    /\ callerPc' = AfterStopAsync
    /\ UNCHANGED <<fsVars, psVars, asyncStream, handleOpen, controlClaimed,
                   devPresent, pollVars, callerOp, calls, callSnap, iterVars,
                   pktCount, closedAt, relSnap, negVars, syncVars>>

\* FrameStream.close: UVCCamera.stop_streaming.  The synchronous claim was
\* given up by start_async_stream, so _release_interface returns at once;
\* _reset_device resets only while _needs_device_reset is set.
StopStreaming ==
    /\ callerPc = "stop_streaming"
    /\ log' = log \o (IF needsReset THEN <<Effect("caller", "reset")>> ELSE <<>>)
    /\ needsReset' = FALSE
    /\ callerPc' = "join"
    /\ UNCHANGED <<fsVars, psVars, asyncStream, handleOpen, controlClaimed,
                   devPresent, pollVars, callerOp, calls, callSnap, iterVars,
                   pktCount, closedAt, relSnap, negVars, syncVars>>

\* FrameStream.close: _poll_thread.join(timeout=0.5) returns when the thread
\* has exited or the timeout has elapsed.
Join ==
    /\ callerPc = "join"
    /\ \E timedOut \in BOOLEAN : timedOut \/ pollPc = "exited"
    /\ callerPc' = "idle"
    /\ log' = Append(log, Effect("caller", "join"))
    /\ UNCHANGED <<fsVars, psVars, camVars, devPresent, pollVars, callerOp,
                   calls, callSnap, iterVars, pktCount, closedAt, relSnap, negVars, syncVars>>

\* -------------------------------------------------------- the poll thread
\* FrameStream._poll_loop: leave when the stop event is set, else call
\* poll_async_events.
PollLoop ==
    /\ pollPc = "loop"
    /\ IF stopEvent
       THEN pollPc' = "exited"
       ELSE pollPc' = "poll"
    /\ UNCHANGED <<fsVars, psVars, camVars, devPresent, cbXfer, cbLeft, pend,
                   callerVars, iterVars, log, pktCount, closedAt, relSnap, negVars, syncVars>>

\* poll_async_events and the head of handle_events_and_resubmit: return when
\* the camera has no stream or the packet stream is not active.
PollEnter ==
    /\ pollPc = "poll"
    /\ pollPc' = IF asyncStream /\ psActive THEN "events" ELSE "loop"
    /\ UNCHANGED <<fsVars, psVars, camVars, devPresent, cbXfer, cbLeft, pend,
                   callerVars, iterVars, log, pktCount, closedAt, relSnap, negVars, syncVars>>

\* The statuses a transfer can complete with.
CompletionStatuses ==
    IF devPresent THEN Statuses \ {"NO_DEVICE"} ELSE {"NO_DEVICE"}

\* handleEventsTimeout runs the completion callback of transfer i, which
\* completed with status st: _on_transfer up to the packet loop.
\* clearOk: whether clearHalt succeeds on STALL; n: the number of non-empty
\* packets of the transfer (the device sends MaxPackets of them in a run).
OnTransfer(i, st, clearOk, n) ==
    /\ pollPc = "events"
    /\ xfer[i] = "submitted"
    /\ st \in CompletionStatuses
    /\ pktCount + n <= MaxPackets
    /\ IF ~psActive
       THEN /\ xfer' = [xfer EXCEPT ![i] = "idle"]
            /\ UNCHANGED <<pool, psActive, xferStatus, resubmitQ, log, pollPc,
                           cbXfer, cbLeft>>
       ELSE IF st = "NO_DEVICE" \/ (st = "STALL" /\ ~clearOk)
       THEN /\ psActive' = FALSE
            /\ resubmitQ' = Append(resubmitQ, 0)
            /\ xfer' = [PsStopXfer(xfer) EXCEPT ![i] = "idle"]
            /\ xferStatus' = [xferStatus EXCEPT ![i] = st]
            /\ log' = log \o RepeatSeq(Effect("poll", "cancel"),
                                       PsStopCancels(xfer) - 1)
            /\ UNCHANGED <<pool, pollPc, cbXfer, cbLeft>>
       ELSE /\ xfer' = [xfer EXCEPT ![i] = "callback"]
            /\ xferStatus' = [xferStatus EXCEPT ![i] = st]
            /\ log' = log
            /\ pollPc' = "packets"
            /\ cbXfer' = i
            /\ cbLeft' = n
            /\ UNCHANGED <<pool, psActive, resubmitQ>>
    /\ UNCHANGED <<fsVars, camVars, devPresent, pend, callerVars, iterVars,
                   pktCount, closedAt, relSnap, negVars, syncVars>>

\* handleEventsTimeout runs the callback of a cancelled transfer:
\* _on_transfer returns at once.
OnCancelled(i) ==
    /\ pollPc = "events"
    /\ xfer[i] = "cancelled"
    /\ xfer' = [xfer EXCEPT ![i] = "idle"]
    /\ UNCHANGED <<fsVars, pool, psActive, xferStatus, resubmitQ, camVars,
                   devPresent, pollVars,
                   callerVars, iterVars, log, pktCount, closedAt, relSnap, negVars, syncVars>>

\* handleEventsTimeout raises (the device is gone): handle_events_and_resubmit
\* stops the packet stream and returns.
EventsFail ==
    /\ pollPc = "events"
    /\ ~devPresent
    /\ PsStop("poll")
    /\ pollPc' = "loop"
    /\ UNCHANGED <<fsVars, camVars, devPresent, cbXfer, cbLeft, pend,
                   callerVars, iterVars, pktCount, closedAt, relSnap, negVars, syncVars>>

\* handleEventsTimeout returns: go on to the resubmit queue.
EventsDone ==
    /\ pollPc = "events"
    /\ pollPc' = "drain"
    /\ UNCHANGED <<fsVars, psVars, camVars, devPresent, cbXfer, cbLeft, pend,
                   callerVars, iterVars, log, pktCount, closedAt, relSnap, negVars, syncVars>>

\* _on_transfer hands one non-empty packet to the camera's _callback, which
\* passes it to FrameStream._on_packet while the packet stream is active;
\* _on_packet ignores it when the frame stream is not active.
Deliver(p) ==
    /\ pollPc = "packets" /\ cbLeft > 0
    /\ pktCount' = pktCount + 1
    /\ cbLeft' = cbLeft - 1
    /\ IF asyncStream /\ psActive /\ fsActive
       THEN /\ asm' = OnPacketState(asm, p, expected)
            /\ pend' = OnPacketFrames(asm, p, expected)
            /\ pollPc' = IF OnPacketFrames(asm, p, expected) = <<>>
                         THEN "packets" ELSE "enq_check"
       ELSE UNCHANGED <<asm, pend, pollPc>>
    /\ UNCHANGED <<fsActive, stopEvent, queue, queueMax, expected, psVars,
                   camVars, devPresent, cbXfer, callerVars, iterVars, log,
                   closedAt, relSnap, negVars, syncVars>>

\* Where the poll thread goes when _enqueue returns.
AfterEnqueue(rest) == IF rest = <<>> THEN "packets" ELSE "enq_check"

\* _enqueue: return when the stream is not active.
EnqCheck ==
    /\ pollPc = "enq_check"
    /\ IF fsActive
       THEN /\ pollPc' = "enq_put"
            /\ pend' = pend
       ELSE /\ pollPc' = AfterEnqueue(Tail(pend))
            /\ pend' = Tail(pend)
    /\ UNCHANGED <<fsVars, psVars, camVars, devPresent, cbXfer, cbLeft,
                   callerVars, iterVars, log, pktCount, closedAt, relSnap, negVars, syncVars>>

\* _enqueue: the first put_nowait.
EnqPut ==
    /\ pollPc = "enq_put"
    /\ IF IsFull(queue, queueMax)
       THEN /\ pollPc' = "enq_evict"
            /\ UNCHANGED <<queue, pend>>
       ELSE /\ queue' = Append(queue, Head(pend))
            /\ pend' = Tail(pend)
            /\ pollPc' = AfterEnqueue(Tail(pend))
    /\ UNCHANGED <<fsActive, stopEvent, queueMax, expected, asm, psVars, camVars,
                   devPresent, cbXfer, cbLeft, callerVars, iterVars, log,
                   pktCount, closedAt, relSnap, negVars, syncVars>>

\* Mutant: the newest item is dropped instead of the oldest.
EvictedNewest(q) == IF q = <<>> THEN q ELSE SubSeq(q, 1, Len(q) - 1)

\* _enqueue after queue.Full: get_nowait drops the oldest item, if any.
Evicted(q) == IF q = <<>> THEN q ELSE Tail(q)

EnqEvict ==
    /\ pollPc = "enq_evict"
    /\ queue' = Evicted(queue)
    /\ pollPc' = "enq_put2"
    /\ UNCHANGED <<fsActive, stopEvent, queueMax, expected, asm, psVars, camVars,
                   devPresent, cbXfer, cbLeft, pend, callerVars, iterVars, log,
                   pktCount, closedAt, relSnap, negVars, syncVars>>

\* _enqueue after the eviction: the second put_nowait; on queue.Full the new
\* frame is dropped.
EnqPut2 ==
    /\ pollPc = "enq_put2"
    /\ queue' = IF IsFull(queue, queueMax) THEN queue
                ELSE Append(queue, Head(pend))
    /\ pend' = Tail(pend)
    /\ pollPc' = AfterEnqueue(Tail(pend))
    /\ UNCHANGED <<fsActive, stopEvent, queueMax, expected, asm, psVars, camVars,
                   devPresent, cbXfer, cbLeft, callerVars, iterVars, log,
                   pktCount, closedAt, relSnap, negVars, syncVars>>

\* Mutant: the callback ends without putting the transfer on the resubmit
\* queue.
CallbackEndDropsTransfer ==
    /\ pollPc = "packets" /\ cbLeft = 0
    /\ xfer' = [xfer EXCEPT ![cbXfer] = "idle"]
    /\ pollPc' = "events"
    /\ cbXfer' = 0
    /\ UNCHANGED <<fsVars, pool, psActive, xferStatus, resubmitQ, camVars,
                   devPresent, cbLeft, pend, callerVars, iterVars, log,
                   pktCount, closedAt, relSnap, negVars, syncVars>>

\* _on_transfer after the packet loop: the transfer goes on the resubmit
\* queue while the packet stream is active.
CallbackEnd ==
    /\ pollPc = "packets" /\ cbLeft = 0
    /\ IF psActive
       THEN /\ resubmitQ' = Append(resubmitQ, cbXfer)
            /\ xfer' = [xfer EXCEPT ![cbXfer] = "queued"]
       ELSE /\ resubmitQ' = resubmitQ
            /\ xfer' = [xfer EXCEPT ![cbXfer] = "idle"]
    /\ pollPc' = "events"
    /\ cbXfer' = 0
    /\ UNCHANGED <<fsVars, pool, psActive, xferStatus, camVars, devPresent,
                   cbLeft, pend,
                   callerVars, iterVars, log, pktCount, closedAt, relSnap, negVars, syncVars>>

\* Mutant: the resubmit loop submits the transfer at the head of the queue
\* and leaves it there.
DrainLeavesQueued ==
    /\ pollPc = "drain"
    /\ resubmitQ # <<>> /\ Head(resubmitQ) # 0 /\ psActive /\ devPresent
    /\ xfer' = [xfer EXCEPT ![Head(resubmitQ)] = "submitted"]
    /\ UNCHANGED <<fsVars, pool, psActive, xferStatus, resubmitQ, log, camVars,
                   devPresent, pollVars, callerVars, iterVars, pktCount,
                   closedAt, relSnap, negVars, syncVars>>

\* handle_events_and_resubmit, one turn of the resubmit loop.
Drain ==
    /\ pollPc = "drain"
    /\ IF resubmitQ = <<>>
       THEN /\ pollPc' = "loop"
            /\ xferStatus' = NoStatus
            /\ UNCHANGED <<pool, psActive, xfer, resubmitQ, log>>
       ELSE LET t == Head(resubmitQ) IN
            IF t = 0
            THEN /\ resubmitQ' = Tail(resubmitQ)
                 /\ pollPc' = "loop"
                 /\ xferStatus' = NoStatus
                 /\ UNCHANGED <<pool, psActive, xfer, log>>
            ELSE IF ~psActive
            THEN /\ resubmitQ' = Tail(resubmitQ)
                 /\ xfer' = [xfer EXCEPT ![t] = "idle"]
                 /\ pollPc' = "drain"
                 /\ UNCHANGED <<pool, psActive, xferStatus, log>>
            ELSE IF devPresent
            THEN /\ resubmitQ' = Tail(resubmitQ)
                 /\ xfer' = [xfer EXCEPT ![t] = "submitted"]
                 /\ pollPc' = "drain"
                 /\ UNCHANGED <<pool, psActive, xferStatus, log>>
            ELSE \* submit raises: stop, leave the loop
                 /\ psActive' = FALSE
                 /\ resubmitQ' = Append(Tail(resubmitQ), 0)
                 /\ xfer' = [PsStopXfer(xfer) EXCEPT ![t] = "idle"]
                 /\ xferStatus' = NoStatus
                 /\ log' = log \o RepeatSeq(Effect("poll", "cancel"),
                                            PsStopCancels(xfer))
                 /\ pollPc' = "loop"
                 /\ pool' = pool
    /\ UNCHANGED <<fsVars, camVars, devPresent, cbXfer, cbLeft, pend,
                   callerVars, iterVars, pktCount, closedAt, relSnap, negVars, syncVars>>

\* ---------------------------------------------------- the consumer thread
\* __iter__: queue.get returns an item; None ends the iteration.
IterGet ==
    /\ iterPc = "wait"
    /\ queue # <<>>
    /\ queue' = Tail(queue)
    /\ IF Head(queue).kind = "stop"
       THEN /\ iterPc' = "done"
            /\ received' = received
       ELSE /\ iterPc' = "wait"
            /\ received' = Append(received, Head(queue).seq)
    /\ UNCHANGED <<fsActive, stopEvent, queueMax, expected, asm, psVars, camVars,
                   devPresent, pollVars, callerVars, log, pktCount, closedAt, relSnap, negVars, syncVars>>

\* Mutant: the iterator never looks at the active flag on a timeout.
IterTimeoutNoExit ==
    /\ iterPc = "wait"
    /\ queue = <<>>
    /\ UNCHANGED vars

\* __iter__: queue.get times out on an empty queue; leave when the stream is
\* not active and the queue is empty, else wait again.
IterTimeout ==
    /\ iterPc = "wait"
    /\ queue = <<>>
    /\ iterPc' = IF ~fsActive THEN "done" ELSE "wait"
    /\ UNCHANGED <<fsVars, psVars, camVars, devPresent, pollVars, callerVars,
                   received, log, pktCount, closedAt, relSnap, negVars, syncVars>>

\* ------------------------------------------------------------- the device
\* The camera is unplugged while streaming.
Unplug ==
    /\ devPresent /\ pollPc \notin {"none", "exited"}
    /\ devPresent' = FALSE
    /\ UNCHANGED <<fsVars, psVars, camVars, pollVars, callerVars, iterVars, log,
                   pktCount, closedAt, relSnap, negVars, syncVars>>

\* ------------------------------------------------------ the negotiation
asyncVars == <<fsVars, psVars, camVars, devPresent, pollVars, callerVars,
               iterVars, log, pktCount, closedAt, relSnap>>
streamVars == <<asyncVars, syncVars, sel>>

\* What GET_CUR and GET_DEF of VS_PROBE can answer for the next length of the
\* ladder: a block of that length, or NoBlock when the read fails.
TemplateReads(n) ==
    IF Len(n.tried) = Len(n.lengths) THEN {NoBlock}
    ELSE DeviceBlocks(n.lengths[Len(n.tried) + 1]) \cup {NoBlock}

\* The outcome of the length attempt in progress is recorded.
WithOutcome(tried, outcome) ==
    [tried EXCEPT ![Len(tried)] = [@ EXCEPT !.outcome = outcome]]

\* The frame rate of the attempt in progress (fps_candidate).
AttemptFps == neg.attempts[neg.idx][2]

\* configure_stream starts with its locals unset.
CallLocals(n) ==
    [n EXCEPT !.attempts = <<>>, !.idx = 0, !.announced = 0, !.lengths = <<>>,
              !.tried = <<>>, !.lastError = "none", !.error = "none",
              !.template = NoBlock, !.payload = NoBlock, !.readBack = NoBlock,
              !.committed = NoBlock, !.probes = <<>>]

\* configure_stream up to the loops.  It tests nothing about a running
\* asynchronous stream: it can be called on an idle camera and while a stream
\* runs.  _ensure_claimed claims the streaming interface (_claimed is False
\* in both cases; claim_interface succeeds, or raises USBError, as it does
\* when another handle holds the interface), then candidate_fps and the
\* attempts are built.
ConfigureStream(claimOk) ==
    /\ neg.pc \in {"idle", "streaming"}
    /\ neg' = IF claimOk
              THEN [CallLocals(neg) EXCEPT
                      !.pc = "cfg", !.path = "sync", !.claimed = TRUE,
                      !.attempts = AttemptsOf(BmHints,
                                     CandidateFps(neg.fps, neg.advertised,
                                                  neg.subtype))]
              ELSE [CallLocals(neg) EXCEPT
                      !.pc = "raised", !.path = "sync", !.error = "EBUSY"]
    /\ UNCHANGED streamVars

\* configure_stream: the next attempt calls perform_probe_commit, which asks
\* GET_LEN and orders the lengths; after the last attempt, raise last_error
\* or UVCError.
CfgAttempt(announced) ==
    /\ neg.pc = "cfg"
    /\ IF neg.idx = Len(neg.attempts)
       THEN neg' = [neg EXCEPT
                      !.pc = "raised",
                      !.error = IF neg.lastError = "none" THEN "UVCError"
                                ELSE neg.lastError]
       ELSE neg' = [neg EXCEPT
                      !.pc = "ppc", !.idx = neg.idx + 1,
                      !.announced = announced,
                      !.lengths = LengthsFor(announced),
                      !.tried = <<>>]
    /\ UNCHANGED streamVars

\* perform_probe_commit: the next length.  _perform_probe_commit_with_length
\* reads its template (GET_CUR, GET_DEF, zeros), starts its payload from
\* bytearray(length), then picks the interval, which raises for a positive
\* frame rate (caught by "except Exception": next length); else it builds the
\* payload.  After the last length, raise last_error.
PpcAttempt(cur, def) ==
    /\ neg.pc = "ppc"
    /\ IF Len(neg.tried) = Len(neg.lengths)
       THEN neg' = [neg EXCEPT
                      !.pc = "cfg_catch",
                      !.error = neg.tried[Len(neg.tried)].outcome]
       ELSE LET l == neg.lengths[Len(neg.tried) + 1] IN
            IF PickIntervalRaises(AttemptFps)
            THEN neg' = [neg EXCEPT
                           !.tried = Append(neg.tried,
                                        [length |-> l, outcome |-> "AttributeError"]),
                           !.template = TemplateOf(cur, def, l),
                           !.payload = NoBlock, !.readBack = NoBlock,
                           !.committed = NoBlock]
            ELSE neg' = [neg EXCEPT
                           !.tried = Append(neg.tried,
                                        [length |-> l, outcome |-> "pending"]),
                           !.template = TemplateOf(cur, def, l),
                           !.payload = ProbePayload(l), !.readBack = NoBlock,
                           !.committed = NoBlock,
                           !.pc = "probe"]
    /\ UNCHANGED streamVars

\* perform_probe_commit: a USBError from the length attempt; EINVAL and EPIPE
\* go on to the next length, any other errno is raised.
PpcFailed(n, e) ==
    [n EXCEPT !.tried = WithOutcome(n.tried, e),
              !.pc = IF e \in {"EINVAL", "EPIPE"} THEN "ppc" ELSE "cfg_catch",
              !.error = e]

\* _perform_probe_commit_with_length: SET_CUR(VS_PROBE) with the payload.
SetCurProbe(resp) ==
    /\ neg.pc = "probe"
    /\ LET sent == [neg EXCEPT
                      !.probes = Append(neg.probes,
                                   <<neg.idx, neg.payload.hint, AttemptFps>>)]
       IN  neg' = IF resp = "ok" THEN [sent EXCEPT !.pc = "readback"]
                  ELSE PpcFailed(sent, resp)
    /\ UNCHANGED streamVars

\* _perform_probe_commit_with_length: GET_CUR(VS_PROBE); blk is NoBlock when
\* the read fails.
GetCurProbe(blk) ==
    /\ neg.pc = "readback"
    /\ neg' = [neg EXCEPT !.readBack = blk, !.pc = "commit"]
    /\ UNCHANGED streamVars

\* _perform_probe_commit_with_length: SET_CUR(VS_COMMIT) with the negotiated
\* bytes; on success configure_stream leaves its loops and records the
\* committed values.
SetCurCommit(resp) ==
    /\ neg.pc = "commit"
    /\ LET bytes == NegotiatedBytes(neg.readBack, neg.payload)
           sent == [neg EXCEPT !.committed = bytes]
       IN  neg' = IF resp = "ok"
                  THEN [sent EXCEPT
                          !.tried = WithOutcome(neg.tried, "ok"),
                          !.pc = "configured",
                          !.committedInterval =
                              CommittedInterval(bytes, neg.defaultInterval)]
                  ELSE PpcFailed(sent, resp)
    /\ UNCHANGED streamVars

\* configure_stream: what perform_probe_commit raised.  USBError with EINVAL
\* or EPIPE: remembered, next attempt; any other USBError: raised; anything
\* else that is not a UVCError (the AttributeError) is not caught.
CfgCatch ==
    /\ neg.pc = "cfg_catch"
    /\ neg' = IF neg.error \in {"EINVAL", "EPIPE", "UVCError"}
              THEN [neg EXCEPT !.lastError = neg.error, !.pc = "cfg"]
              ELSE [neg EXCEPT
                      !.lastError = IF neg.error \in UsbErrors THEN neg.error
                                    ELSE neg.lastError,
                      !.pc = "raised"]
    /\ UNCHANGED streamVars

\* start_async_stream: with a stream already active it raises UVCError and
\* changes nothing.  Else, with _run_libusb_probe_commit: the PyUSB claim is released
\* (_release_interface(reset_alt=False)), the template is read
\* (GET_CUR, zeros when it fails); the interval is the committed one, or
\* pick_interval(None) when that is 0, which raises AttributeError.
StartAsync(template) ==
    /\ neg.pc = "configured"
    /\ neg' = IF neg.running
              THEN [neg EXCEPT !.pc = "raised", !.path = "async",
                               !.error = "UVCError",
                               !.payload = NoBlock, !.readBack = NoBlock,
                               !.committed = NoBlock]
              ELSE IF neg.committedInterval = 0
              THEN [neg EXCEPT !.pc = "raised", !.path = "async",
                               !.claimed = FALSE,
                               !.error = "AttributeError",
                               !.payload = NoBlock, !.readBack = NoBlock,
                               !.committed = NoBlock]
              ELSE [neg EXCEPT !.pc = "a_probe", !.path = "async",
                               !.claimed = FALSE,
                               !.payload = AsyncPayload(template,
                                                        neg.committedInterval),
                               !.readBack = NoBlock, !.committed = NoBlock]
    /\ UNCHANGED streamVars

\* start_async_stream: a usb1.USBError out of _run_libusb_probe_commit is
\* caught and raised as UVCError.
AsyncRaised(n) == [n EXCEPT !.pc = "raised", !.error = "UVCError"]

\* _run_libusb_probe_commit: SET_CUR(VS_PROBE); a failure is raised.
AsyncSetCurProbe(resp) ==
    /\ neg.pc = "a_probe"
    /\ neg' = IF resp = "ok" THEN [neg EXCEPT !.pc = "a_readback"]
              ELSE AsyncRaised(neg)
    /\ UNCHANGED streamVars

\* _run_libusb_probe_commit: GET_CUR(VS_PROBE); a failure is raised.
AsyncGetCurProbe(blk, resp) ==
    /\ neg.pc = "a_readback"
    /\ neg' = IF resp = "ok" THEN [neg EXCEPT !.readBack = blk, !.pc = "a_commit"]
              ELSE AsyncRaised(neg)
    /\ UNCHANGED streamVars

\* _run_libusb_probe_commit: SET_CUR(VS_COMMIT) with the negotiated bytes;
\* start_async_stream then starts the packet stream (_async_stream is set).
AsyncSetCurCommit(resp) ==
    /\ neg.pc = "a_commit"
    /\ neg' = IF resp = "ok"
              THEN [neg EXCEPT !.committed = neg.readBack, !.pc = "streaming",
                               !.running = TRUE]
              ELSE AsyncRaised([neg EXCEPT !.committed = neg.readBack])
    /\ UNCHANGED streamVars

NegNext ==
    \/ \E claimOk \in BOOLEAN : ConfigureStream(claimOk)
    \/ \E announced \in AnnouncedLengths : CfgAttempt(announced)
    \/ /\ neg.pc = "ppc"
       /\ \E cur, def \in TemplateReads(neg) : PpcAttempt(cur, def)
    \/ \E resp \in UsbErrors \cup {"ok"} : SetCurProbe(resp)
    \/ \E blk \in DeviceBlocks(neg.payload.len) \cup {NoBlock} : GetCurProbe(blk)
    \/ \E resp \in UsbErrors \cup {"ok"} : SetCurCommit(resp)
    \/ CfgCatch
    \/ \E t \in DeviceBlocks(AsyncLength) \cup {NoBlock} : StartAsync(t)
    \/ \E resp \in UsbErrors \cup {"ok"} : AsyncSetCurProbe(resp)
    \/ \E blk \in DeviceBlocks(AsyncLength), resp \in UsbErrors \cup {"ok"} :
         AsyncGetCurProbe(blk, resp)
    \/ \E resp \in UsbErrors \cup {"ok"} : AsyncSetCurCommit(resp)

\* A stream that is built and not entered; every request and every frame.
NegInit ==
    /\ Built(1, {DefaultQueueSize}, {"uncompressed"}, {0})
    /\ ctl = CtlIdle
    /\ race = RaceIdle
    /\ MoreIdle
    /\ \E f \in Fps \cup {NoneVal}, adv \in SUBSET Fps,
          st \in {"uncompressed", "mjpeg"}, di \in DevIntervals,
          strict \in BOOLEAN :
         neg = NegStart(f, adv, st, di, strict)

\* ------------------------------------- configure_stream after the commit
\* configure_stream once PROBE/COMMIT gave the block info: the alternate
\* setting is looked up or selected; without one that has an endpoint
\* configure_stream raises.
ConfigureAlt(alts, payload, max_frame_size, alt_setting) ==
    /\ sel.pc = "idle"
    /\ LET alt == ChosenAlt(alts, payload, max_frame_size, alt_setting) IN
       sel' = [pc |-> IF alt = NoneVal \/ ~alts[alt].ep
                      THEN "raised" ELSE "selected",
               alts |-> alts, payload |-> payload, mfs |-> max_frame_size,
               explicit |-> alt_setting, alt |-> alt]
    /\ UNCHANGED <<asyncVars, syncVars, neg>>

AltNext ==
    /\ sel.pc = "idle"
    /\ \E alts \in AltSets, payload \in Sizes \cup {NoneVal}, m \in Sizes,
          explicit \in {NoneVal, 0, MaxAlt + 1} :
           ConfigureAlt(alts, payload, m, explicit)

AltInit ==
    /\ Built(1, {DefaultQueueSize}, {"uncompressed"}, {0})
    /\ neg = NegIdle
    /\ ctl = CtlIdle
    /\ race = RaceIdle
    /\ MoreIdle

\* Alternate-setting selection over every interface layout.
AltSpec == AltInit /\ [][AltNext]_vars

\* ------------------------------------------------------------ read_frame
\* read_frame is called: it raises when the stream is not configured, else
\* its locals are set up and the loop starts.
ReadFrameCall(configured, subtype, max_frame_size) ==
    /\ rf.pc \in {"idle", "returned", "raised"}
    /\ rf.reads < MaxReads
    /\ rf' = IF ~configured
             THEN [rf EXCEPT !.pc = "raised", !.ret = NoFrame,
                             !.toggle = NoToggle]
             ELSE [rf EXCEPT !.pc = "loop",
                             !.expected = ReadExpectedOf(subtype, max_frame_size),
                             !.loc = RfLocals,
                             !.ret = NoFrame,
                             !.toggle = NoToggle]
    /\ UNCHANGED <<asyncVars, negVars, auxVars>>

\* device.read times out or returns an empty packet: the loop goes on.
ReadEmpty ==
    /\ rf.pc = "loop"
    /\ rf.reads < MaxReads
    /\ rf' = [rf EXCEPT !.reads = rf.reads + 1]
    /\ UNCHANGED <<asyncVars, negVars, auxVars>>

\* device.read raises another USBError: read_frame raises it.
ReadRaises ==
    /\ rf.pc = "loop"
    /\ rf' = [rf EXCEPT !.pc = "raised"]
    /\ UNCHANGED <<asyncVars, negVars, auxVars>>

\* One turn of the loop of read_frame on packet p.
ReadTurn(r, p) ==
    LET a == ReadAfterFid(r.loc, p)
        b == ReadAccumulate(a, p)
    IN  IF BadHeader(p)
        THEN [r EXCEPT !.loc = RfLocals]
        ELSE IF ReadToggleReturns(r.loc, p, r.expected)
        THEN [r EXCEPT !.pc = "returned", !.ret = ReadFrameOf(r.loc, NoneVal),
                       !.toggle = [fid |-> p.fid, len |-> Len(p.data)]]
        ELSE IF ReadAbandons(b, r.expected)
        THEN [r EXCEPT !.loc = RfLocals]
        ELSE IF ~p.eof
        THEN [r EXCEPT !.loc = b]
        ELSE IF ReadEofDrops(b, r.expected)
        THEN [r EXCEPT !.loc = RfLocals]
        ELSE [r EXCEPT !.pc = "returned", !.ret = ReadFrameOf(b, ReadPts(p))]

\* device.read returns packet p.
ReadPacket(p) ==
    /\ rf.pc = "loop"
    /\ rf.reads < MaxReads
    /\ rf' = ReadTurn([rf EXCEPT !.reads = rf.reads + 1], p)
    /\ UNCHANGED <<asyncVars, negVars, auxVars>>

ReadNext ==
    \/ \E c \in BOOLEAN, st \in {"uncompressed", "mjpeg", "frame_based"},
          m \in {0, FrameSize} : ReadFrameCall(c, st, m)
    \/ ReadEmpty
    \/ ReadRaises
    \/ \E p \in PacketsAt(rf.reads + 1) : ReadPacket(p)

ReadInit ==
    /\ Built(1, {DefaultQueueSize}, {"uncompressed"}, {0})
    /\ neg = NegIdle
    /\ ctl = CtlIdle
    /\ race = RaceIdle
    /\ MoreIdle

\* The synchronous reader under every packet sequence.
ReadSpec == ReadInit /\ [][ReadNext]_vars

\* ------------------------------------------------------ control access
\* Control operations a camera goes through.
MaxCtlOps == 2

\* Integers a caller sets a control to, and raw byte strings.
ControlValues == {-32768, -129, -128, -2, -1, 0, 1, 127, 128, 192, 255, 256,
                  32767, 32768, 65535, 65536, 2147483647}
RawValues == {<<1>>, <<1, 0>>, <<1, 0, 0>>, <<1, 0, 0, 0>>}

\* enumerate_controls: unless refresh is asked or the cache is empty, the
\* cache is kept and nothing is done; else _refresh_control_cache claims the
\* VC interface on the PyUSB device (claim_vc_interface), _initialise sends
\* GET_INFO and, when that answers non-zero, GET_LEN, GET_MIN, GET_MAX,
\* GET_RES and GET_DEF, and the cache holds the new entries.
Enumerated(c, refresh) ==
    IF refresh \/ c.cache = <<>>
    THEN [cache |-> IF c.dev.info = 0 THEN <<>>
                    ELSE <<EntryOf(DevLen(c.dev), DevRaw(c.dev, "min"),
                                   DevRaw(c.dev, "max"), DevRaw(c.dev, "step"),
                                   DevRaw(c.dev, "def"), c.gen + 1)>>,
          gen |-> c.gen + 1, claims |-> 1,
          requests |-> IF c.dev.info = 0 THEN 1 ELSE 6]
    ELSE [cache |-> c.cache, gen |-> c.gen, claims |-> 0, requests |-> 0]

\* The operation op has run: it becomes the last one.
AfterOp(c, e, op, stored) ==
    [c EXCEPT !.cache = e.cache, !.gen = e.gen, !.stored = stored,
              !.nOps = c.nOps + 1, !.prev = c.last, !.last = op]

\* read_vc_control / write_vc_control: how the request travels, and the
\* scoped claims of the VC interface it makes.
Travel(c) ==
    IF ViaHandle(c.streaming, c.controlClaimed)
    THEN [via |-> "handle", claims |-> 0]
    ELSE [via |-> "scoped", claims |-> 1]

\* enumerate_controls(refresh=refresh)
EnumerateControls(refresh) ==
    /\ ctl.nOps < MaxCtlOps
    /\ LET e == Enumerated(ctl, refresh)
       IN  ctl' = AfterOp(ctl, e,
                     [NoOp EXCEPT !.op = "enumerate", !.refresh = refresh,
                                  !.claims = e.claims, !.requests = e.requests,
                                  !.via = IF e.requests > 0 THEN "scoped"
                                          ELSE "none",
                                  !.entries = e.cache],
                     ctl.stored)
    /\ UNCHANGED <<asyncVars, negVars, rf, race, moreVars>>

\* get_control(name): _resolve_control enumerates (KeyError when the name is
\* unknown), read_vc_control sends GET_CUR for the length, and the bytes are
\* decoded.
GetControl ==
    /\ ctl.nOps < MaxCtlOps
    /\ LET e == Enumerated(ctl, FALSE)
           op == [NoOp EXCEPT !.op = "get", !.claims = e.claims,
                              !.requests = e.requests,
                              !.via = IF e.requests > 0 THEN "scoped" ELSE "none",
                              !.entries = e.cache]
       IN  IF e.cache = <<>>
           THEN ctl' = AfterOp(ctl, e, [op EXCEPT !.error = "KeyError"],
                               ctl.stored)
           ELSE LET entry == e.cache[1]
                    t == Travel(ctl)
                    data == Take(ctl.stored, LengthOf(entry, 4))
                IN  ctl' = AfterOp(ctl, e,
                              [op EXCEPT !.via = t.via,
                                         !.claims = e.claims + t.claims,
                                         !.requests = e.requests + 1,
                                         !.result = GetResult(entry, data)],
                              ctl.stored)
    /\ UNCHANGED <<asyncVars, negVars, rf, race, moreVars>>

\* set_control(name, value, raw=raw): _resolve_control enumerates; a raw value
\* is sent as it is, an integer is encoded (OverflowError when it does not
\* fit); write_vc_control sends SET_CUR and the device stores the payload.
SetControl(value, raw) ==
    /\ ctl.nOps < MaxCtlOps
    /\ LET e == Enumerated(ctl, FALSE)
           op == [NoOp EXCEPT !.op = "set", !.raw = raw, !.value = value,
                              !.claims = e.claims, !.requests = e.requests,
                              !.via = IF e.requests > 0 THEN "scoped" ELSE "none",
                              !.entries = e.cache]
       IN  IF e.cache = <<>>
           THEN ctl' = AfterOp(ctl, e, [op EXCEPT !.error = "KeyError"],
                               ctl.stored)
           ELSE LET entry == e.cache[1]
                    t == Travel(ctl)
                    length == LengthOf(entry, 2)
                IN  IF ~raw /\ ~Fits(value, IF length < 1 THEN 1 ELSE length,
                                     IsSigned(entry))
                    THEN ctl' = AfterOp(ctl, e,
                                   [op EXCEPT !.error = "OverflowError"],
                                   ctl.stored)
                    ELSE LET payload == IF raw THEN value
                                        ELSE SetPayload(entry, value)
                         IN  ctl' = AfterOp(ctl, e,
                                       [op EXCEPT !.via = t.via,
                                                  !.claims = e.claims + t.claims,
                                                  !.requests = e.requests + 1,
                                                  !.sent = payload],
                                       payload)
    /\ UNCHANGED <<asyncVars, negVars, rf, race, moreVars>>

CtlNext ==
    \/ \E refresh \in BOOLEAN : EnumerateControls(refresh)
    \/ GetControl
    \/ \E v \in ControlValues : SetControl(v, FALSE)
    \/ \E b \in RawValues : SetControl(b, TRUE)

\* A camera without a stream, or with one whose handle holds the claim of
\* the VC interface or not (start_async_stream claims it only when the
\* interface has an interrupt endpoint, and goes on when the claim fails),
\* and every device.
CtlInit ==
    /\ Built(1, {DefaultQueueSize}, {"uncompressed"}, {0})
    /\ neg = NegIdle
    /\ \E streaming \in BOOLEAN, control_claimed \in BOOLEAN, dev \in Devices :
         /\ control_claimed => streaming
         /\ ctl = CtlStart(streaming, control_claimed, dev)
    /\ race = RaceIdle
    /\ MoreIdle

\* The control operations of a camera, in every order.
CtlSpec == CtlInit /\ [][CtlNext]_vars

\* ------------------------------------------------------ signed inference
\* Bytes the device's answers are made of, and the answers: byte strings of
\* 1, 2 and 4 bytes, and none.
SampleBytes == {0, 1, 128, 255}
RawInputs ==
    {<<>>} \cup [1..1 -> SampleBytes] \cup [1..2 -> SampleBytes]
           \cup [1..4 -> SampleBytes]
OtherRaws == {<<>>, <<1, 0>>, <<255, 255>>}

\* The integers of the entry are within the integers of the model: a 4-byte
\* answer with its top bit set is only taken when it is read as signed.
Representable(min_raw, max_raw) ==
    \A d \in {min_raw, max_raw} :
        IF Len(d) < 4 THEN TRUE
        ELSE IF d[4] < 128 THEN TRUE
        ELSE ShouldUseSigned(min_raw, max_raw)

\* _initialise for one control: the entry built from the device's answers.
Initialise(min_raw, max_raw, step_raw, default_raw) ==
    /\ ctl.gen = 0
    /\ ctl' = [ctl EXCEPT
                 !.cache = <<EntryOf(0, min_raw, max_raw, step_raw,
                                     default_raw, 1)>>,
                 !.gen = 1]
    /\ UNCHANGED <<asyncVars, negVars, rf, race, moreVars>>

SignNext ==
    /\ ctl.gen = 0
    /\ \E min_raw \in RawInputs, max_raw \in RawInputs, o \in OtherRaws :
         /\ Representable(min_raw, max_raw)
         /\ Initialise(min_raw, max_raw, o, o)

SignInit ==
    /\ Built(1, {DefaultQueueSize}, {"uncompressed"}, {0})
    /\ neg = NegIdle
    /\ ctl = CtlIdle
    /\ race = RaceIdle
    /\ MoreIdle

\* _initialise under every pair of answers to GET_MIN and GET_MAX.
SignSpec == SignInit /\ [][SignNext]_vars

\* ------------------------------------------------ concurrent teardown
\* Each action is one test or one write of an attribute, or one call into
\* libusb: between any two of them another thread may run (no lock is taken
\* in close, stop_async_stream or UVCPacketStream.stop).
RaceGoto(t, to) == [race EXCEPT !.pc[t] = to]
RaceOnly == UNCHANGED <<asyncVars, negVars, rf, ctl, moreVars>>

\* FrameStream.__enter__: the stream is started and the poll thread runs.
RaceEnter ==
    /\ ~race.fsActive /\ \A t \in RaceThreads : race.pc[t] = "idle"
    /\ race.cancels = 0
    /\ race' = [race EXCEPT !.fsActive = TRUE, !.pollThread = TRUE,
                            !.asyncStream = TRUE, !.asyncHandle = TRUE,
                            !.psActive = TRUE]
    /\ RaceOnly

\* FrameStream.close, `if not self._active: return`.
RaceClose(t) ==
    /\ t \in Callers /\ race.pc[t] = "idle" /\ race.pollThread
    /\ race' = RaceGoto(t, IF race.fsActive THEN "c_set" ELSE "returned")
    /\ RaceOnly

\* FrameStream.close: the stop event, `self._active = False`, the sentinel.
RaceCloseSet(t) ==
    /\ race.pc[t] = "c_set"
    /\ race' = [RaceGoto(t, "sa_check") EXCEPT !.fsActive = FALSE]
    /\ RaceOnly

\* stop_async_stream, `if self._async_stream is None: return`.
RaceStopAsync(t) ==
    /\ race.pc[t] = "sa_check"
    /\ race' = RaceGoto(t, IF race.asyncStream THEN "sa_stop"
                           ELSE "stop_streaming")
    /\ RaceOnly

\* stop_async_stream, `self._async_stream.stop()`: the attribute is read
\* again; on None the call raises AttributeError.
RaceStreamStop(t) ==
    /\ race.pc[t] = "sa_stop"
    /\ race' = RaceGoto(t, IF race.asyncStream THEN "ps_check" ELSE "raised")
    /\ RaceOnly

\* _on_transfer / handle_events_and_resubmit on the poll thread: the device
\* is gone (or an event or resubmission failed) and the stream stops itself.
RaceDeviceError ==
    /\ race.pc["poll"] = "idle" /\ race.pollThread /\ race.psActive
    /\ race' = RaceGoto("poll", "ps_check")
    /\ RaceOnly

\* Where UVCPacketStream.stop returns to.
AfterPsStop(t) == IF t = "poll" THEN "returned" ELSE "sa_handle"

\* UVCPacketStream.stop, `if not self._active: return`.
RacePsCheck(t) ==
    /\ race.pc[t] = "ps_check"
    /\ race' = RaceGoto(t, IF race.psActive THEN "ps_set" ELSE AfterPsStop(t))
    /\ RaceOnly

\* UVCPacketStream.stop, `self._active = False`.
RacePsSet(t) ==
    /\ race.pc[t] = "ps_set"
    /\ race' = [RaceGoto(t, "ps_cancel") EXCEPT !.psActive = FALSE]
    /\ RaceOnly

\* UVCPacketStream.stop: the sentinel, the cancel of every submitted
\* transfer, `self._transfers.clear()`.
RacePsCancel(t) ==
    /\ race.pc[t] = "ps_cancel"
    /\ race' = [RaceGoto(t, AfterPsStop(t)) EXCEPT !.cancels = @ + 1]
    /\ RaceOnly

\* stop_async_stream, `if self._async_handle is not None:`.
RaceHandle(t) ==
    /\ race.pc[t] = "sa_handle"
    /\ race' = RaceGoto(t, IF race.asyncHandle THEN "sa_release"
                           ELSE "sa_clear")
    /\ RaceOnly

\* stop_async_stream: alternate setting 0 and
\* `self._async_handle.releaseInterface(...)`; only usb1.USBError is
\* suppressed, so that on None the AttributeError leaves the call.
RaceRelease(t) ==
    /\ race.pc[t] = "sa_release"
    /\ race' = IF race.asyncHandle
               THEN [RaceGoto(t, "sa_close") EXCEPT !.releases = @ + 1]
               ELSE RaceGoto(t, "raised")
    /\ RaceOnly

\* stop_async_stream, `self._async_handle.close()`.
RaceHandleClose(t) ==
    /\ race.pc[t] = "sa_close"
    /\ race' = IF race.asyncHandle
               THEN [RaceGoto(t, "sa_clear") EXCEPT !.closes = @ + 1]
               ELSE RaceGoto(t, "raised")
    /\ RaceOnly

\* stop_async_stream: the attributes are set to None, the kernel drivers
\* reattached, the device reset.
RaceClear(t) ==
    /\ race.pc[t] = "sa_clear"
    /\ race' = [RaceGoto(t, "stop_streaming") EXCEPT !.asyncStream = FALSE,
                                                    !.asyncHandle = FALSE]
    /\ RaceOnly

\* FrameStream.close, `self._camera.stop_streaming()`.
RaceStopStreaming(t) ==
    /\ race.pc[t] = "stop_streaming"
    /\ race' = RaceGoto(t, "join_check")
    /\ RaceOnly

\* FrameStream.close, `if self._poll_thread is not None:`.
RaceJoinCheck(t) ==
    /\ race.pc[t] = "join_check"
    /\ race' = RaceGoto(t, IF race.pollThread THEN "join" ELSE "returned")
    /\ RaceOnly

\* FrameStream.close, `self._poll_thread.join(timeout=0.5)`: the attribute
\* is read again; on None the call raises AttributeError.
RaceJoin(t) ==
    /\ race.pc[t] = "join"
    /\ race' = RaceGoto(t, IF race.pollThread THEN "join_clear" ELSE "raised")
    /\ RaceOnly

\* FrameStream.close, `self._poll_thread = None`.
RaceJoinClear(t) ==
    /\ race.pc[t] = "join_clear"
    /\ race' = [RaceGoto(t, "returned") EXCEPT !.pollThread = FALSE]
    /\ RaceOnly

RaceNext ==
    \/ RaceEnter
    \/ RaceDeviceError
    \/ \E t \in Callers : RaceClose(t)
    \/ \E t \in Callers : RaceCloseSet(t)
    \/ \E t \in Callers : RaceStopAsync(t)
    \/ \E t \in Callers : RaceStreamStop(t)
    \/ \E t \in RaceThreads : RacePsCheck(t)
    \/ \E t \in RaceThreads : RacePsSet(t)
    \/ \E t \in RaceThreads : RacePsCancel(t)
    \/ \E t \in Callers : RaceHandle(t)
    \/ \E t \in Callers : RaceRelease(t)
    \/ \E t \in Callers : RaceHandleClose(t)
    \/ \E t \in Callers : RaceClear(t)
    \/ \E t \in Callers : RaceStopStreaming(t)
    \/ \E t \in Callers : RaceJoinCheck(t)
    \/ \E t \in Callers : RaceJoin(t)
    \/ \E t \in Callers : RaceJoinClear(t)

RaceInit ==
    /\ Built(1, {DefaultQueueSize}, {"uncompressed"}, {0})
    /\ neg = NegIdle
    /\ ctl = CtlIdle
    /\ race = RaceIdle
    /\ MoreIdle

\* One stream closed by two threads at once while the poll thread may stop
\* it after a device error.
RaceSpec == RaceInit /\ [][RaceNext]_vars

\* ---------------------------------------------------------- the quirks
QkOnly == UNCHANGED <<asyncVars, negVars, rf, ctl, race, still, vc, pu, sa>>

\* _initialise, `for unit in self._units`: the definitions of the unit's
\* GUID are copied afresh into quirk_definitions (none of them marked).
QuirkUnit ==
    /\ qk.unit < Len(qk.units)
    /\ IF qk.unit = 0 THEN TRUE
       ELSE qk.control = Len(qk.units[qk.unit].controls)
    /\ qk' = [qk EXCEPT
                !.unit = @ + 1, !.control = 0,
                !.used = IF qk.units[qk.unit + 1].guid = "G"
                         THEN [i \in 1..Len(qk.definitions) |-> FALSE]
                         ELSE <<>>]
    /\ QkOnly

\* _initialise, `for control in controls`: the control is validated and,
\* the unit having definitions, _consume_definition names it.
QuirkControl ==
    /\ qk.unit > 0
    /\ qk.control < Len(qk.units[qk.unit].controls)
    /\ LET control == qk.units[qk.unit].controls[qk.control + 1]
           matched == IF qk.used = <<>> THEN 0
                      ELSE ConsumeDefinition(qk.definitions, qk.used, control)
       IN  qk' = [qk EXCEPT
                    !.control = @ + 1,
                    !.used = IF matched = 0 THEN @
                             ELSE [@ EXCEPT ![matched] = TRUE],
                    !.named = Append(@,
                                [unit |-> qk.unit, guid |-> qk.units[qk.unit].guid,
                                 selector |-> control.selector,
                                 info |-> control.info,
                                 definition |-> matched,
                                 before |-> qk.used])]
    /\ QkOnly

QuirkNext ==
    \/ QuirkUnit
    \/ QuirkControl

\* The controls of an Extension Unit: one per bit set of its bitmap, in
\* ascending selector order, each with the byte it answers to GET_INFO.
UnitControls ==
    {<<>>} \cup {<<[selector |-> x, info |-> i]>> :
                    x \in QuirkSelectors, i \in InfoBytes}
           \cup {<<[selector |-> 5, info |-> i], [selector |-> 9, info |-> j]>> :
                    i \in InfoBytes, j \in InfoBytes}
QuirkUnits == [guid : {"G", "H"}, controls : UnitControls]
MaxDefinitions == 2
MaxUnits == 2

QuirkInit ==
    /\ Built(1, {DefaultQueueSize}, {"uncompressed"}, {0})
    /\ neg = NegIdle
    /\ ctl = CtlIdle
    /\ race = RaceIdle
    /\ \E nd \in 1..MaxDefinitions, nu \in 1..MaxUnits :
         \E definitions \in [1..nd -> Definitions], units \in [1..nu -> QuirkUnits] :
            qk = [QkIdle EXCEPT !.definitions = definitions, !.units = units]
    /\ still = StillIdle
    /\ vc = VcIdle
    /\ pu = PuIdle
    /\ sa = SaIdle

\* One enumeration of the Extension Units of a device under a quirks file
\* for GUID G.
QuirkSpec == QuirkInit /\ [][QuirkNext]_vars

\* ------------------------------------------------------ still capture
StillOnly == UNCHANGED <<asyncVars, negVars, rf, ctl, race, qk, vc, pu, sa>>

MaxCaptures == 2

\* The call has ended: what it left, what it found, how it ended.
StillEnded(cam, sizes, outcome) ==
    [still EXCEPT !.cam = cam, !.sizes = sizes, !.outcome = outcome,
                  !.before = [cam |-> still.cam, sizes |-> still.sizes],
                  !.captures = @ + 1]

\* capture_still_image: claimOk, altOk and readOk are the outcomes of the
\* claim, of set_interface_altsetting towards the still alternate setting,
\* and of the trigger and read_frame.
CaptureStillImage(claimOk, altOk, readOk) ==
    /\ still.captures < MaxCaptures
    /\ LET was_claimed == still.cam.claimed
           previous == still.cam
           raw_alt == still.still_alt_info
           alt_info == IF raw_alt.endpoint_address = 0 THEN NoAlt ELSE raw_alt
           has_alt == alt_info # NoAlt
           switch == has_alt /\ alt_info.alternate_setting # previous.active_alt
           \* lines 2221-2235
           selected ==
               [previous EXCEPT
                  !.claimed = TRUE,
                  !.active_alt = IF switch THEN alt_info.alternate_setting ELSE @,
                  !.endpoint_address =
                      IF has_alt THEN alt_info.endpoint_address ELSE @,
                  !.max_payload =
                      IF has_alt /\ alt_info.max_packet_size # 0
                      THEN alt_info.max_packet_size ELSE @]
           \* lines 2237-2243
           resized == still.still_frame_size # 0
           original_frame_size == still.sizes[still.still_frame]
           during_sizes ==
               IF resized
               THEN [still.sizes EXCEPT ![still.still_frame] = still.still_frame_size]
               ELSE still.sizes
           \* finally, lines 2259-2275
           after_sizes ==
               IF previous.frame # 0 /\ resized
               THEN [during_sizes EXCEPT ![previous.frame] = original_frame_size]
               ELSE during_sizes
           restored ==
               [selected EXCEPT
                  !.format = previous.format, !.frame = previous.frame,
                  !.active_alt = IF switch THEN previous.active_alt ELSE @,
                  !.endpoint_address =
                      IF switch THEN previous.endpoint_address ELSE @,
                  !.max_payload = IF switch THEN previous.max_payload ELSE @,
                  !.claimed = was_claimed]
       IN  still' =
             IF still.still_frame = 0
             THEN StillEnded(still.cam, still.sizes, "raised")
             ELSE IF ~was_claimed /\ ~claimOk
             THEN StillEnded(still.cam, still.sizes, "raised")
             ELSE IF switch /\ ~altOk
             THEN StillEnded([previous EXCEPT !.claimed = TRUE], still.sizes,
                             "raised")
             ELSE StillEnded(restored, after_sizes,
                             IF readOk THEN "returned" ELSE "raised")
    /\ StillOnly

StillNext ==
    /\ still.captures < MaxCaptures
    /\ \E claimOk \in BOOLEAN, altOk \in BOOLEAN, readOk \in BOOLEAN :
         CaptureStillImage(claimOk, altOk, readOk)

\* The cameras a capture starts from: no stream configured, or one
\* configured on alternate setting 1; stop_streaming may have released the
\* claim that configure_still_image took.
StillCams ==
    {CamIdle, CamOf(TRUE, 0, 0, 0, 0)}
        \cup {CamOf(TRUE, 1, 129, 1024, f) : f \in StillFrames}
StillAlts ==
    {NoAlt,
     [alternate_setting |-> 1, endpoint_address |-> 129, max_packet_size |-> 1024],
     [alternate_setting |-> 1, endpoint_address |-> 129, max_packet_size |-> 512],
     [alternate_setting |-> 2, endpoint_address |-> 130, max_packet_size |-> 3072],
     [alternate_setting |-> 2, endpoint_address |-> 130, max_packet_size |-> 0],
     [alternate_setting |-> 2, endpoint_address |-> 0, max_packet_size |-> 0]}
StillSizes == {0, 700, 800, 900}

StillInit ==
    /\ Built(1, {DefaultQueueSize}, {"uncompressed"}, {0})
    /\ neg = NegIdle
    /\ ctl = CtlIdle
    /\ race = RaceIdle
    /\ qk = QkIdle
    /\ \E cam \in StillCams, f \in {0} \cup StillFrames, size \in StillSizes,
          alt \in StillAlts :
         /\ (f = 0) => (size = 0 /\ alt = NoAlt)
         /\ (f # 0 /\ alt = NoAlt) => cam.endpoint_address # 0
         /\ still = [StillIdle EXCEPT
                       !.cam = cam, !.still_frame = f,
                       !.still_frame_size = size, !.still_alt_info = alt,
                       !.before = [cam |-> cam, sizes |-> ParsedSizes]]
    /\ vc = VcIdle
    /\ pu = PuIdle
    /\ sa = SaIdle

\* capture_still_image on a camera with or without a configured stream.
StillSpec == StillInit /\ [][StillNext]_vars

\* ------------------------------------------------- the scoped VC claim
VcOnly == UNCHANGED <<asyncVars, negVars, rf, ctl, race, qk, still, pu, sa>>

MaxScopes == 3
ClaimErrors == {"ok", "EBUSY", "EIO"}

\* `with claim_vc_interface(dev, vc_if): body`, from the call to the return
\* of control to the caller. detach is LIBUSB_UVC_AUTO_DETACH_VC; detachOk,
\* claimErr, bodyOk and attachOk are the outcomes of detach_kernel_driver,
\* claim_interface, the body and attach_kernel_driver.
ClaimVcInterface(detach, detachOk, claimErr, bodyOk, attachOk) ==
    /\ vc.scopes < MaxScopes
    /\ LET reattach == detach /\ vc.driver /\ detachOk
           detached == [vc EXCEPT !.driver = IF reattach THEN FALSE ELSE @,
                                  !.detaches = IF reattach THEN @ + 1 ELSE @,
                                  !.scopes = @ + 1]
       IN  \* the kernel driver still bound, the claim is refused
           /\ (detached.driver => claimErr # "ok")
           /\ vc' =
                IF claimErr # "ok"
                THEN \* lines 3185-3197: raised before the try
                     [detached EXCEPT
                        !.outcome = IF detach \/ claimErr = "EIO"
                                    THEN "USBError" ELSE "RuntimeError"]
                ELSE \* lines 3198-3205: body, then the finally
                     [detached EXCEPT
                        !.claims = @ + 1, !.releases = @ + 1,
                        !.attaches = IF reattach THEN @ + 1 ELSE @,
                        !.driver = IF reattach THEN attachOk ELSE @,
                        !.outcome = IF bodyOk THEN "returned" ELSE "raised"]
    /\ VcOnly

\* list_control_units, for the VC interface: detach, parse, reattach.
ListControlUnits(detach, detachOk, attachOk) ==
    /\ vc.scopes < MaxScopes
    /\ LET reattach == detach /\ vc.driver /\ detachOk IN
       vc' = [vc EXCEPT
                !.detaches = IF reattach THEN @ + 1 ELSE @,
                !.attaches = IF reattach THEN @ + 1 ELSE @,
                !.driver = IF reattach THEN attachOk ELSE @,
                !.outcome = "returned", !.scopes = @ + 1]
    /\ VcOnly

VcNext ==
    \/ /\ vc.scopes < MaxScopes
       /\ \E detach \in BOOLEAN, detachOk \in BOOLEAN, claimErr \in ClaimErrors,
             bodyOk \in BOOLEAN, attachOk \in BOOLEAN :
            ClaimVcInterface(detach, detachOk, claimErr, bodyOk, attachOk)
    \/ /\ vc.scopes < MaxScopes
       /\ \E detach \in BOOLEAN, detachOk \in BOOLEAN, attachOk \in BOOLEAN :
            ListControlUnits(detach, detachOk, attachOk)

VcInit ==
    /\ Built(1, {DefaultQueueSize}, {"uncompressed"}, {0})
    /\ neg = NegIdle
    /\ ctl = CtlIdle
    /\ race = RaceIdle
    /\ qk = QkIdle
    /\ still = StillIdle
    /\ \E driver \in BOOLEAN : vc = [VcIdle EXCEPT !.driver = driver]
    /\ pu = PuIdle
    /\ sa = SaIdle

\* Scoped claims of the VC interface and descriptor listings, one after
\* the other.
VcSpec == VcInit /\ [][VcNext]_vars

\* ------------------------------------------------ the descriptor parser
PuOnly == UNCHANGED <<asyncVars, negVars, rf, ctl, race, qk, still, vc, sa>>

\* parse_vc_descriptors handing one Processing Unit descriptor to
\* _parse_processing_unit.
ParseProcessingUnit(desc) ==
    /\ ~pu.parsed
    /\ pu' = [desc |-> desc, unit |-> ParseProcessingUnitOf(desc),
              parsed |-> TRUE]
    /\ PuOnly

\* Processing Unit descriptors: bLength, CS_INTERFACE, VC_PROCESSING_UNIT,
\* bUnitID, bSourceID, wMaxMultiplier, bControlSize, then the bytes of
\* bmControls (all of them, or one less than announced) and what follows.
MaxControlSize == 3
BitmapBytes == {0, 1, 15, 128, 199, 255}
PuHeader(bLength, bControlSize) == <<bLength, 36, 5, 3, 1, 0, 0, bControlSize>>
PuDescriptors ==
    UNION {
        {PuHeader(8 + Len(bm) + Len(rest), n) \o bm \o rest :
            bm \in [1..n -> BitmapBytes] \cup [1..(IF n = 0 THEN 0 ELSE n - 1) -> BitmapBytes],
            rest \in {<<>>, <<0>>, <<0, 0>>}} :
        n \in 0..MaxControlSize}

PuNext ==
    /\ ~pu.parsed
    /\ \E desc \in PuDescriptors : ParseProcessingUnit(desc)

PuInit ==
    /\ Built(1, {DefaultQueueSize}, {"uncompressed"}, {0})
    /\ neg = NegIdle
    /\ ctl = CtlIdle
    /\ race = RaceIdle
    /\ qk = QkIdle
    /\ still = StillIdle
    /\ vc = VcIdle
    /\ pu = PuIdle
    /\ sa = SaIdle

\* _parse_processing_unit under every descriptor of PuDescriptors.
PuSpec == PuInit /\ [][PuNext]_vars

\* ------------------------------------ start_async_stream's handle
SaOnly == UNCHANGED <<asyncVars, negVars, rf, ctl, race, qk, still, vc, pu>>

MaxStarts == 3

\* The call ends with an exception at `step`; what the handler of that
\* step did to the fresh handle is in `handle`.
SaRaised(n, step, error, handle) ==
    [n EXCEPT !.outcome = error, !.step = step, !.fresh = handle]

\* start_async_stream on a configured camera, from the call to its return
\* or its exception. found: the bus/address lookup gave a device; vcOk,
\* vsOk: claimInterface of the VC and of the VS interface; alt0Ok, probeOk,
\* altOk: setInterfaceAltSetting(0), the controlWrite/controlRead of
\* _run_libusb_probe_commit, setInterfaceAltSetting(alt); submitted: how
\* many of the `transfers` first submissions of UVCPacketStream.start were
\* accepted.
StartAsyncStream(found, vcOk, vsOk, alt0Ok, probeOk, altOk, transfers, submitted) ==
    /\ sa.starts < MaxStarts
    /\ submitted <= transfers
    /\ LET \* a handle that an earlier call left open is referred to by
           \* nothing once this call has its own
           called == [sa EXCEPT !.starts = @ + 1]
           begun == [called EXCEPT
                       !.claimed = FALSE,
                       !.stray = IF sa.fresh.open THEN @ + 1 ELSE @]
           control_claimed == sa.controlIface /\ vcOk
           opened == [open |-> TRUE, ctx |-> TRUE, vs |-> TRUE,
                      vc |-> control_claimed, submitted |-> 0]
       IN sa' =
            IF sa.asyncStream
            THEN [called EXCEPT !.outcome = "UVCError", !.step = "guard"]
            ELSE IF ~found
            THEN \* ctx.close()
                 SaRaised(begun, "lookup", "UVCError", NoHandle)
            ELSE IF ~vsOk
            THEN \* VC released, handle.close(), ctx.close()
                 SaRaised(begun, "claim_vs", "UVCError", NoHandle)
            ELSE IF ~alt0Ok
            THEN \* except usb1.USBError: both released, closed
                 SaRaised(begun, "alt0", "UVCError", NoHandle)
            ELSE IF sa.committedInterval = 0
            THEN \* self._frame.pick_interval(None): FrameInfo has no such
                 \* method; AttributeError is no usb1.USBError
                 SaRaised(begun, "probe", "AttributeError", opened)
            ELSE IF ~probeOk
            THEN SaRaised(begun, "probe", "UVCError", NoHandle)
            ELSE IF ~altOk
            THEN SaRaised(begun, "alt", "UVCError", NoHandle)
            ELSE IF submitted < transfers
            THEN \* stream.start(): transfer.submit() raises, nothing
                 \* catches it
                 SaRaised(begun, "submit", "USBError",
                          [opened EXCEPT !.submitted = submitted])
            ELSE [begun EXCEPT !.asyncStream = TRUE, !.outcome = "returned",
                               !.step = "done",
                               !.fresh = [opened EXCEPT !.submitted = transfers]]
    /\ SaOnly

\* stop_async_stream: without a stream it returns; else the transfers are
\* cancelled, the interfaces released, the handle and the context closed.
StopAsyncStream ==
    /\ sa.asyncStream
    /\ sa' = [sa EXCEPT !.asyncStream = FALSE, !.fresh = NoHandle,
                        !.outcome = "stopped", !.step = "none"]
    /\ SaOnly

\* configure_stream again: the PyUSB claim is taken again and the interval
\* committed by the device is stored.
SaConfigure(interval) ==
    /\ sa.starts < MaxStarts
    /\ sa.outcome # "none"
    /\ ~sa.claimed
    /\ sa' = [sa EXCEPT !.claimed = TRUE, !.committedInterval = interval]
    /\ SaOnly

CommittedIntervals == {0, 333333}

SaNext ==
    \/ /\ sa.starts < MaxStarts
       /\ \E found, vcOk, vsOk, alt0Ok, probeOk, altOk \in BOOLEAN,
             transfers \in Transfers :
            \E submitted \in 0..transfers :
               StartAsyncStream(found, vcOk, vsOk, alt0Ok, probeOk, altOk,
                                transfers, submitted)
    \/ StopAsyncStream
    \/ \E interval \in CommittedIntervals : SaConfigure(interval)

SaInit ==
    /\ Built(1, {DefaultQueueSize}, {"uncompressed"}, {0})
    /\ neg = NegIdle
    /\ ctl = CtlIdle
    /\ race = RaceIdle
    /\ qk = QkIdle
    /\ still = StillIdle
    /\ vc = VcIdle
    /\ pu = PuIdle
    /\ \E controlIface \in BOOLEAN, interval \in CommittedIntervals :
         sa = [SaIdle EXCEPT !.controlIface = controlIface,
                             !.committedInterval = interval]

\* start_async_stream, stop_async_stream and configure_stream one after
\* the other on one camera.
StartSpec == SaInit /\ [][SaNext]_vars

\* --------------------------------------------- read_frame's retries
\* device.read raises USBError with errno ETIMEDOUT, or returns an empty
\* packet: `continue`. No local changes; reads is history, and from
\* MaxReads on it only tells one read from the next, so that a loop that
\* never ends is a cycle of the finite model.
ReadTimesOut ==
    /\ rf.pc = "loop"
    /\ rf' = [rf EXCEPT !.reads = IF rf.reads <= MaxReads THEN rf.reads + 1
                                  ELSE MaxReads]
    /\ UNCHANGED <<asyncVars, negVars, auxVars>>

RetryNext ==
    \/ \E c \in BOOLEAN, st \in {"uncompressed", "mjpeg", "frame_based"},
          m \in {0, FrameSize} : ReadFrameCall(c, st, m)
    \/ ReadTimesOut
    \/ ReadRaises
    \/ \E p \in PacketsAt(rf.reads + 1) : ReadPacket(p)

\* The synchronous reader with a thread that keeps running: whenever a step
\* of the call is possible, one is taken.
RetrySpec == ReadInit /\ [][RetryNext]_vars /\ WF_vars(RetryNext)

\* The negotiation: configure_stream, then start_async_stream's
\* re-negotiation on the fresh handle.
NegSpec == NegInit /\ [][NegNext]_vars

Next ==
    \/ Enter
    \/ \E op \in {"close", "stop_async"} : Call(op)
    \/ FsCloseBegin
    \/ FsCloseSentinel
    \/ StopAsyncBegin
    \/ StopAsyncRelease
    \/ StopAsyncReattach
    \/ StopStreaming
    \/ Join
    \/ PollLoop
    \/ PollEnter
    \/ \E i \in Transfers, st \in Statuses, ok \in BOOLEAN, n \in 0..1 :
         OnTransfer(i, st, ok, n)
    \/ \E i \in Transfers : OnCancelled(i)
    \/ EventsDone
    \/ \E p \in WholeFramePacketsAt(pktCount + 1) : Deliver(p)
    \/ EnqCheck
    \/ EnqPut
    \/ EnqEvict
    \/ EnqPut2
    \/ CallbackEnd
    \/ Drain
    \/ IterGet
    \/ IterTimeout

\* Stopping a stream: the caller thread, the poll thread and the consumer.
Spec == Init /\ [][Next]_vars

\* Losing the device while streaming: the poll thread and the consumer.
LossNext ==
    \/ Enter
    \/ PollLoop
    \/ PollEnter
    \/ \E i \in Transfers, st \in Statuses, ok \in BOOLEAN, n \in 0..1 :
         OnTransfer(i, st, ok, n)
    \/ \E i \in Transfers : OnCancelled(i)
    \/ EventsFail
    \/ EventsDone
    \/ \E p \in WholeFramePacketsAt(pktCount + 1) : Deliver(p)
    \/ EnqCheck
    \/ EnqPut
    \/ EnqEvict
    \/ EnqPut2
    \/ CallbackEnd
    \/ Drain
    \/ IterGet
    \/ IterTimeout
    \/ Unplug

LossSpec == LossInit /\ [][LossNext]_vars

\* The assembler under every packet sequence: the stream runs, the poll
\* thread feeds the assembler and the consumer iterates; nobody stops it.
AsmNext ==
    \/ Enter
    \/ PollLoop
    \/ PollEnter
    \/ \E i \in Transfers, st \in Statuses, ok \in BOOLEAN, n \in 0..1 :
         OnTransfer(i, st, ok, n)
    \/ EventsDone
    \/ \E p \in PacketsAt(pktCount + 1) : Deliver(p)
    \/ EnqCheck
    \/ EnqPut
    \/ EnqEvict
    \/ EnqPut2
    \/ CallbackEnd
    \/ Drain
    \/ IterGet
    \/ IterTimeout

AsmSpec == AsmInitial /\ [][AsmNext]_vars

\* Fairness: the consumer thread and the poll thread keep running; a caller
\* that has begun a call finishes it.
ConsumerStep == IterGet \/ IterTimeout

PollStep ==
    \/ PollLoop
    \/ PollEnter
    \/ EventsDone
    \/ EventsFail
    \/ \E p \in WholeFramePacketsAt(pktCount + 1) : Deliver(p)
    \/ EnqCheck
    \/ EnqPut
    \/ EnqEvict
    \/ EnqPut2
    \/ CallbackEnd
    \/ Drain

CallerStep ==
    \/ FsCloseBegin
    \/ FsCloseSentinel
    \/ StopAsyncBegin
    \/ StopAsyncRelease
    \/ StopAsyncReattach
    \/ StopStreaming
    \/ Join

\* Closing a stream: the caller calls close() (once or twice) while the poll
\* thread and the consumer run.
CloseInit ==
    /\ Built(1, 1..MaxQueue, {"uncompressed"}, {0})
    /\ neg = NegIdle
    /\ ctl = CtlIdle
    /\ race = RaceIdle
    /\ MoreIdle

CloseNext ==
    \/ Enter
    \/ Call("close")
    \/ FsCloseBegin
    \/ FsCloseSentinel
    \/ StopAsyncBegin
    \/ StopAsyncRelease
    \/ StopAsyncReattach
    \/ StopStreaming
    \/ Join
    \/ PollLoop
    \/ PollEnter
    \/ \E i \in Transfers, st \in Statuses, ok \in BOOLEAN, n \in 0..1 :
         OnTransfer(i, st, ok, n)
    \/ \E i \in Transfers : OnCancelled(i)
    \/ EventsDone
    \/ \E p \in WholeFramePacketsAt(pktCount + 1) : Deliver(p)
    \/ EnqCheck
    \/ EnqPut
    \/ EnqEvict
    \/ EnqPut2
    \/ CallbackEnd
    \/ Drain
    \/ IterGet
    \/ IterTimeout

CloseSpec == CloseInit /\ [][CloseNext]_vars

FairSpec ==
    CloseSpec /\ WF_vars(ConsumerStep) /\ WF_vars(PollStep) /\ WF_vars(CallerStep)

LossFairSpec ==
    LossSpec /\ WF_vars(ConsumerStep) /\ WF_vars(PollStep)

\* ------------------------------------------------------------------ claims
FramesOfQueue == {i \in 1..Len(queue) : queue[i].kind = "frame"}

\* C1: every frame FrameStream puts on its queue has a non-empty payload and,
\* when the stream has an expected frame size, a payload of exactly that size.
C1_QueuedFramesComplete ==
    \A i \in FramesOfQueue :
        /\ Len(queue[i].payload) > 0
        /\ expected # NoneVal => Len(queue[i].payload) = expected

\* C2: the frames the consumer receives carry strictly increasing sequence
\* numbers, in the order of assembly: every received number is smaller than
\* the next one, and smaller than those of the frames still queued.
C2_SequenceIncreasing ==
    /\ \A i, j \in 1..Len(received) : i < j => received[i] < received[j]
    /\ \A i \in 1..Len(received), k \in FramesOfQueue : received[i] < queue[k].seq
    /\ \A k, l \in FramesOfQueue : k < l => queue[k].seq < queue[l].seq

\* C2 witness: the consumer has received two frames with a dropped frame
\* between them.
C2_Witness ==
    \E i \in 1..Len(received) :
        i + 1 <= Len(received) /\ received[i + 1] > received[i] + 1

\* C6: a stop call on a stream that is already stopped is a no-op.  A call to
\* FrameStream.close or stop_async_stream that finds the stream stopped
\* returns at once and leaves the log of USB effects (cancel, release, close,
\* reattach, reset), the queue, the transfers and the camera as they were;
\* UVCPacketStream.stop on a packet stream that is not active cancels nothing.
C6_CallOnStopped ==
    (callerPc \in {"close", "sa_begin"} /\ callSnap.stopped /\ callerPc' # callerPc)
        => (callerPc' = "idle" /\ UNCHANGED <<log, fsVars, psVars, camVars>>)

C6_PacketStopOnStopped ==
    (callerPc = "sa_begin" /\ asyncStream /\ ~psActive /\ callerPc' # callerPc)
        => UNCHANGED <<log, psVars>>

C6_SecondStopNoOp == [][C6_CallOnStopped /\ C6_PacketStopOnStopped]_vars

\* C6 witness: a second close() on a stream closed before has returned.
C6_Witness ==
    /\ callerPc = "idle" /\ calls = 2 /\ callerOp = "close"
    /\ callSnap.stopped /\ closedAt.done

\* Position of the caller's first effect of a kind in the log, 0 when there
\* is none.
FirstPos(what) ==
    IF \E i \in 1..Len(log) : log[i] = Effect("caller", what)
    THEN CHOOSE i \in 1..Len(log) :
            /\ log[i] = Effect("caller", what)
            /\ \A j \in 1..(i - 1) : log[j] # Effect("caller", what)
    ELSE 0

Ordered(a, b) == FirstPos(a) # 0 /\ FirstPos(b) # 0 => FirstPos(a) < FirstPos(b)

\* The poll thread had exited, or the bounded wait for it (join) was over,
\* when close() released the interfaces.
WaitedBeforeRelease ==
    \/ relSnap.poll = "exited"
    \/ (FirstPos("join") # 0 /\ FirstPos("join") < FirstPos("releaseVS"))

\* C7: when close() stops a stream, the active flag is cleared and the
\* transfers cancelled first; then the poll thread has exited or the bounded
\* wait for it is over; only then are the interfaces released and the handle
\* closed; reattach and reset come last.
C7_StopOrder ==
    relSnap.op = "close" =>
        /\ Ordered("flag", "cancel") /\ Ordered("cancel", "releaseVS")
        /\ Ordered("flag", "releaseVS")
        /\ Ordered("releaseVS", "closeHandle")
        /\ Ordered("closeHandle", "reattachVC")
        /\ Ordered("reattachVS", "reset")
        /\ WaitedBeforeRelease

\* The frames the consumer received after close() cleared the active flag.
ReceivedAfterClose ==
    {received[i] : i \in (closedAt.n + 1)..Len(received)}

\* C8 as stated: after close() the consumer receives at most the frames that
\* were queued when close() was called, and it leaves the iteration.
C8_OnlyQueuedThenLeaves ==
    /\ [](closedAt.done => ReceivedAfterClose \subseteq closedAt.seqs)
    /\ ((closedAt.done /\ iterPc = "wait") ~> (iterPc = "done"))

\* C8 amended: after close() the consumer receives at most the frames that
\* were queued when close() cleared the active flag and the one frame whose
\* _enqueue had passed its active check by then, and it leaves the iteration.
C8_QueuedOrInFlightThenLeaves ==
    /\ [](closedAt.done =>
            ReceivedAfterClose \subseteq (closedAt.seqs \cup closedAt.inFlight))
    /\ ((closedAt.done /\ iterPc = "wait") ~> (iterPc = "done"))

\* C8 witness: the consumer has left after receiving a frame following close().
C8_Witness ==
    closedAt.done /\ iterPc = "done" /\ ReceivedAfterClose # {}

\* The device is gone and the packet stream has noticed it.
DeviceLost == ~devPresent /\ ~psActive

\* C9: when the device is lost while the consumer iterates, the iteration
\* ends by raising an error.
C9_LossRaises == (DeviceLost /\ iterPc = "wait") ~> (iterPc = "raised")

\* C10 as stated: the queue never holds more than its maximum; the overflow
\* path drops the oldest item and then admits the new frame.
C10_Bounded == Len(queue) <= queueMax

C10_DropsOldest ==
    (pollPc = "enq_evict" /\ pollPc' = "enq_put2" /\ queue # <<>>)
        => queue' = Tail(queue)

C10_AdmitsNew ==
    (pollPc = "enq_put2" /\ pollPc' # "enq_put2")
        => queue' = Append(queue, Head(pend))

C10_DropOldestAdmitNew ==
    []C10_Bounded /\ [][C10_DropsOldest /\ C10_AdmitsNew]_vars

\* C10 amended: the new frame is admitted when the stream is still active at
\* the second put; a close() that puts its sentinel between the eviction and
\* the second put makes the new frame the one that is dropped.
C10_AdmitsNewWhileActive ==
    (pollPc = "enq_put2" /\ pollPc' # "enq_put2" /\ fsActive)
        => queue' = Append(queue, Head(pend))

C10_DropOldestAdmitNewWhileActive ==
    []C10_Bounded /\ [][C10_DropsOldest /\ C10_AdmitsNewWhileActive]_vars

\* C10 witness: on an active stream a frame has been dropped by the overflow
\* path and the newest frame sits at the end of a full queue.
C10_Witness ==
    /\ fsActive /\ pend = <<>> /\ Len(queue) = queueMax
    /\ queue[Len(queue)].kind = "frame" /\ queue[Len(queue)].seq = asm.seq
    /\ \E s \in 1..asm.seq :
          s \notin SeqsIn(queue) /\ \A i \in 1..Len(received) : received[i] # s

Rank(l) == CHOOSE i \in 1..Len(SupportedLengths) : SupportedLengths[i] = l

TriedLengths == {neg.tried[i].length : i \in 1..Len(neg.tried)}

ClaimedLadder ==
    LET cands == CandidateFps(neg.fps, neg.advertised, neg.subtype)
    IN  [i \in 1..(Len(cands) - 1) |-> <<1, cands[i]>>] \o << <<0, NoneVal>> >>

\* The attempts that reached the device, in order: bmHint on the wire and
\* the frame rate of the attempt, once per attempt.
RECURSIVE WireAttempts(_)
WireAttempts(probes) ==
    IF probes = <<>> THEN <<>>
    ELSE LET rest == WireAttempts(Tail(probes))
             this == <<Head(probes)[2], Head(probes)[3]>>
         IN  IF Len(probes) > 1 /\ probes[2][1] = probes[1][1]
             THEN rest ELSE <<this>> \o rest

IsPrefix(a, b) == Len(a) <= Len(b) /\ \A i \in 1..Len(a) : a[i] = b[i]

\* C5: the attempts configure_stream makes on the device follow the ladder
\* in order; it ends after an attempt on the device, with success or, when
\* none succeeds, by raising the last transport error.
C5_LadderInOrder ==
    /\ IsPrefix(WireAttempts(neg.probes), ClaimedLadder)
    /\ neg.pc = "configured" => neg.probes # <<>>
    /\ (neg.pc = "raised" /\ neg.path = "sync") =>
          (neg.probes # <<>> /\ neg.error \in UsbErrors)


\* ---- C11, C12: what _on_transfer does with each completion status ----
\* The callback of transfer i reads its status in this step.
StatusRead(i) == xferStatus[i] = "none" /\ xferStatus'[i] # "none"

\* The callback of transfer i stops the packet stream and returns: the
\* transfer is not put on the resubmit queue.
StopsWithoutResubmit(i) ==
    /\ ~psActive'
    /\ xfer'[i] = "idle"
    /\ \A k \in 1..Len(resubmitQ') : resubmitQ'[k] # i

\* The callback of transfer i goes on to the packets; at its end the
\* transfer goes on the resubmit queue.
GoesOn(i) == psActive' /\ xfer'[i] = "callback" /\ cbXfer' = i

\* The step is a STALL callback whose clearHalt raised / returned.
ClearHaltFailed(i) == \E n \in 0..1 : OnTransfer(i, "STALL", FALSE, n)
ClearHaltDone(i) == \E n \in 0..1 : OnTransfer(i, "STALL", TRUE, n)

\* The end of a callback while the packet stream is active queues the
\* transfer, and the resubmit loop submits every queued transfer while the
\* stream is active and submit does not raise.
QueuedThenSubmitted ==
    /\ (pollPc = "packets" /\ pollPc' = "events" /\ psActive)
         => (xfer'[cbXfer] = "queued" /\ resubmitQ' = Append(resubmitQ, cbXfer))
    /\ (pollPc = "drain" /\ psActive /\ devPresent /\ resubmitQ # <<>>
          /\ Len(resubmitQ') < Len(resubmitQ) /\ Head(resubmitQ) # 0)
         => xfer'[Head(resubmitQ)] = "submitted"

C12_TimedOutNotFed ==
    [][(cbXfer # 0 /\ xferStatus[cbXfer] = "TIMED_OUT")
         => /\ pktCount' = pktCount
            /\ asm' = asm
            /\ (pollPc = "packets" /\ pollPc' = "events" /\ psActive)
                 => xfer'[cbXfer] = "queued"]_vars


\* ---- C13: a FID toggle closes the frame in flight and opens the next ----
\* The poll thread is about to hand the next packet of a transfer to
\* _on_packet, and the stream is active.
AboutToFeed ==
    pollPc = "packets" /\ cbLeft > 0 /\ asyncStream /\ psActive /\ fsActive

\* The payloads of a sequence of frames.
PayloadsOf(frames) == [k \in 1..Len(frames) |-> frames[k].payload]

\* C13: when a packet arrives whose FID differs from the FID of the frame in
\* flight, that frame is finalized with exactly the bytes accumulated before
\* the packet (and handed on when it has bytes, no error and is not one of
\* the skipped initial frames), and the payload of the packet is exactly the
\* content of the new frame: no byte is lost, duplicated or in the other frame.
C13_FidToggle ==
    (AboutToFeed /\ asm.fid # NoneVal) =>
        \A p \in PacketsAt(pktCount + 1) :
            (~BadHeader(p) /\ p.fid # asm.fid) =>
                LET before == asm.bytes
                    good == ~asm.err /\ before # <<>>
                    closed == IF good /\ asm.skip = 0 THEN <<before>> ELSE <<>>
                    skipLeft == IF good /\ asm.skip > 0
                                THEN asm.skip - 1 ELSE asm.skip
                    bad == p.err \/ (expected # NoneVal /\ Len(p.data) > expected)
                    opened == IF p.eof /\ ~bad /\ p.data # <<>> /\ skipLeft = 0
                              THEN <<p.data>> ELSE <<>>
                    after == OnPacketState(asm, p, expected)
                IN  /\ PayloadsOf(OnPacketFrames(asm, p, expected)) = closed \o opened
                    /\ IF p.eof
                       THEN after.fid = NoneVal /\ after.bytes = <<>>
                       ELSE after.fid = p.fid /\ after.bytes = p.data

\* A FID toggle has just closed a frame, which is on its way to the queue,
\* and the bytes of the toggling packet are the new frame in flight.
C13_Witness ==
    /\ pollPc = "enq_check"
    /\ Len(pend) = 1
    /\ asm.bytes # <<>>
    /\ asm.fid # pend[1].fid
    /\ \A i \in 1..Len(pend[1].payload) : pend[1].payload[i] < asm.bytes[1]


\* ---- C14: the pts of a delivered frame ----
\* The header of packet p carries a PTS that _on_packet reads.
HasPts(p) == p.ptsf /\ p.hl >= PtsHeaderLen

\* C14 as claimed: a frame closed by a FID toggle keeps the PTS it had before
\* the toggling packet and not the PTS of that packet, and the frame the
\* packet opens has the PTS of the packet.
C14_PtsOfOwnFrame ==
    (AboutToFeed /\ asm.fid # NoneVal) =>
        \A p \in PacketsAt(pktCount + 1) :
            (~BadHeader(p) /\ p.fid # asm.fid /\ HasPts(p)) =>
                LET frames == OnPacketFrames(asm, p, expected)
                    after == OnPacketState(asm, p, expected)
                IN  /\ (~asm.err /\ asm.bytes # <<>> /\ asm.skip = 0)
                         => (frames[1].payload = asm.bytes
                             /\ frames[1].pts = asm.pts)
                    /\ ~p.eof => after.pts = p.pts

\* ---- C15: a packet whose header length is out of range ----
\* The bytes of b that are bytes of a.
Shares(a, b) == \E i \in 1..Len(a), j \in 1..Len(b) : a[i] = b[j]

\* C15 as claimed: a packet with a bad header leaves the assembler with no
\* frame in flight and an empty buffer.
C15_BadHeaderResets ==
    AboutToFeed =>
        \A p \in PacketsAt(pktCount + 1) :
            BadHeader(p) =>
                LET after == OnPacketState(asm, p, expected)
                IN  /\ after.fid = NoneVal
                    /\ after.bytes = <<>>
                    /\ OnPacketFrames(asm, p, expected) = <<>>

\* C15: a packet with a bad header delivers nothing and marks the frame in
\* flight as bad, leaving it in flight; a frame marked bad is never delivered:
\* every later packet either adds to it, still marked bad, or closes it, and
\* then its bytes are in no delivered frame and not in the buffer any more.
C15_BadHeaderDropsFrame ==
    AboutToFeed =>
        \A p \in PacketsAt(pktCount + 1) :
            LET after == OnPacketState(asm, p, expected)
                frames == OnPacketFrames(asm, p, expected)
            IN  /\ BadHeader(p) =>
                     /\ frames = <<>>
                     /\ after = [asm EXCEPT !.err = TRUE]
                /\ (~BadHeader(p) /\ asm.fid # NoneVal /\ asm.err) =>
                     /\ \A k \in 1..Len(frames) :
                            ~Shares(asm.bytes, frames[k].payload)
                     /\ \/ after.err /\ after.fid = asm.fid
                        \/ ~Shares(asm.bytes, after.bytes)

\* A bad header arrived while a frame with bytes was in flight: the frame
\* is still in flight, marked bad, and no frame has been delivered.
C15_Witness ==
    /\ pollPc = "packets"
    /\ asm.fid # NoneVal /\ asm.err /\ asm.bytes # <<>>
    /\ pktCount = 2 /\ Len(asm.bytes) = 1 /\ asm.bytes[1] = 1
    /\ queue = <<>> /\ received = <<>>


\* ---- C16: MJPEG and frame-based streams ----
\* C16 as claimed: on an MJPEG or frame-based stream, past the skipped
\* initial frames, a packet with EOF that ends a frame with at least one
\* payload byte and no error (no ERR bit, no bad header) makes _on_packet
\* deliver that frame, whatever its length.
C16_NoExpectedSize ==
    \A st \in {"mjpeg", "frame_based"} :
        (expected = ExpectedSizeOf(st) /\ AboutToFeed /\ asm.skip = 0) =>
            \A p \in PacketsAt(pktCount + 1) :
                LET inFlight == asm.fid # NoneVal
                    whole == (IF inFlight THEN asm.bytes ELSE <<>>) \o p.data
                IN  (/\ ~BadHeader(p) /\ p.eof /\ ~p.err
                     /\ inFlight => (p.fid = asm.fid /\ ~asm.err)
                     /\ whole # <<>>)
                    => PayloadsOf(OnPacketFrames(asm, p, expected)) = <<whole>>


\* ---- C17: the frames read_frame returns ----
\* C17 as claimed: a frame returned by read_frame is built only from packets
\* without the ERR bit, has the expected length when an expected size is
\* known, and is not empty when none is known.
C17_ReturnedFrames ==
    rf.pc = "returned" =>
        /\ ~rf.ret.fromErr
        /\ rf.expected # NoneVal => rf.ret.len = rf.expected
        /\ rf.expected = NoneVal => rf.ret.len > 0


\* ---- C18: the alternate setting configure_stream selects ----
\* The isochronous settings with a packet size.
IsoAlts(alts) == {a \in DOMAIN alts : alts[a].ep /\ alts[a].iso /\ alts[a].mps # 0}

\* C18 as claimed: with no explicit alternate setting, the setting selected
\* is the isochronous one with the smallest max_packet_size that is at least
\* max(dwMaxPayloadTransferSize, max_frame_size), or, when none is that
\* large, the one with the largest max_packet_size.
C18_SmallestIsoAtLeastMax ==
    (sel.pc # "idle" /\ sel.explicit = NoneVal /\ IsoAlts(sel.alts) # {}) =>
        LET iso == IsoAlts(sel.alts)
            pay == IF sel.payload = NoneVal THEN 0 ELSE sel.payload
            required == IF pay > sel.mfs THEN pay ELSE sel.mfs
            fit == {a \in iso : sel.alts[a].mps >= required}
        IN  /\ sel.pc = "selected"
            /\ sel.alt \in iso
            /\ IF fit # {}
               THEN \A a \in fit : sel.alts[sel.alt].mps <= sel.alts[a].mps
               ELSE \A a \in iso : sel.alts[sel.alt].mps >= sel.alts[a].mps


\* ---- C19, C20: the interval for a requested frame rate ----
\* round(1e7 / fps), in 100-ns ticks.
TicksOf(fps) == (20000000 + fps) \div (2 * fps)

\* The intervals_100ns of a frame that advertises the given rates.
IntervalsOf(advertised) == {10000000 \div f : f \in advertised}

Distance(a, b) == IF a >= b THEN a - b ELSE b - a

\* The advertised intervals closest to round(1e7 / fps).
ClosestIntervals(advertised, fps) ==
    {i \in IntervalsOf(advertised) :
        \A j \in IntervalsOf(advertised) :
            Distance(i, TicksOf(fps)) <= Distance(j, TicksOf(fps))}

\* An attempt of configure_stream for a frame rate has tried a length.
TriedWithFps ==
    /\ neg.path = "sync" /\ neg.pc \in {"ppc", "probe", "readback", "commit"}
    /\ neg.tried # <<>>
    /\ AttemptFps # NoneVal
    /\ neg.advertised # {}

\* C19 as claimed: when PROBE is negotiated for a frame rate, the probe block
\* is built and its interval is the advertised interval closest, in 100-ns
\* ticks, to round(1e7 / fps).
C19_ClosestInterval ==
    TriedWithFps =>
        /\ neg.payload # NoBlock
        /\ neg.payload.interval \in ClosestIntervals(neg.advertised, AttemptFps)

\* C20 as claimed: in strict mode, when no advertised rate is the requested
\* one (rates are whole numbers here, so none is within the tolerance),
\* configure_stream ends with a negotiation error and has committed nothing.
C20_StrictFails ==
    (/\ neg.path = "sync" /\ neg.pc \in {"raised", "configured"}
     /\ neg.strict /\ neg.fps # NoneVal /\ neg.fps \notin neg.advertised) =>
        /\ neg.pc = "raised"
        /\ neg.error = "UVCError"
        /\ neg.committed = NoBlock

\* ---------------------------------------------------------------- C21
\* _perform_probe_commit_with_length is about to send its block with
\* SET_CUR(VS_PROBE), having read the template for it.
ProbeAboutToBeSent == neg.path = "sync" /\ neg.pc = "probe"

\* C21 as claimed: the block sent with SET_CUR(VS_PROBE) is the template with
\* only bmHint, bFormatIndex, bFrameIndex and, when an interval is requested,
\* dwFrameInterval changed: it has the template's length, the template's
\* bytes from offset 8 on and, when no interval is requested, the template's
\* dwFrameInterval.
C21_TemplatePatched ==
    ProbeAboutToBeSent =>
        /\ neg.payload.len = neg.template.len
        /\ neg.payload.rest = neg.template.rest
        /\ (AttemptFps = NoneVal =>
                neg.payload.interval = neg.template.interval)

\* ---------------------------------------------------------------- C22
\* configure_stream has failed: it raised out of its probe/commit loops.
ConfigureFailed == neg.path = "sync" /\ neg.pc = "raised"

\* C22 as claimed: when configure_stream fails, the camera is Idle: it holds
\* no stream configuration (nothing committed is recorded, so start and read
\* fail as not configured) and the streaming interface is not kept claimed.
C22_FailureLeavesIdle ==
    ConfigureFailed =>
        /\ neg.committedInterval = 0
        /\ ~neg.claimed

TransportErrors == UsbErrors \cup {"EBUSY"}

\* C29 as claimed: no public camera operation lets an exception of the USB
\* transport library reach the caller: when configure_stream or
\* start_async_stream has raised, what it raised is not a transport error.
C29_NoTransportErrorLeaks ==
    neg.pc = "raised" => neg.error \notin TransportErrors

\* ---------------------------------------------------------------- C24
\* The last control operation sent a request to the device.
SentRequests == ctl.last.requests > 0

\* C24 as claimed: while an asynchronous stream is active, a control
\* operation that reaches the device goes over the streaming handle and
\* makes no claim of the VC interface; with no stream it runs inside a
\* scoped claim.
C24_ControlsOverStreamingHandle ==
    SentRequests =>
        IF ctl.streaming
        THEN ctl.last.via = "handle" /\ ctl.last.claims = 0
        ELSE ctl.last.via = "scoped" /\ ctl.last.claims > 0

\* ---------------------------------------------------------------- C26
\* enumerate_controls() without refresh has just returned, on a camera that
\* had enumerated before (every control operation enumerates first).
EnumeratedAgain ==
    /\ ctl.prev.op # "none"
    /\ ctl.last.op = "enumerate" /\ ~ctl.last.refresh

\* C26 as claimed: after the first enumeration, enumerate_controls() without
\* refresh returns the cached entry objects and sends no request to the
\* device.
C26_EnumerateCached ==
    EnumeratedAgain =>
        /\ ctl.last.requests = 0
        /\ ctl.last.entries = ctl.prev.entries

\* ---------------------------------------------------------------- C27
\* set_control(name, v) with an integer that fits was followed by
\* get_control(name), both without error.
SetThenGet ==
    /\ ctl.prev.op = "set" /\ ~ctl.prev.raw /\ ctl.prev.error = "none"
    /\ ctl.last.op = "get" /\ ctl.last.error = "none"

\* The value was sent little-endian, signed exactly when the control's
\* minimum is negative, in as many bytes as the stored length (2 when
\* unknown).
SentLittleEndian ==
    LET entry == ctl.cache[1]
        n == IF entry.length # 0 THEN entry.length ELSE 2
        signed == entry.minimum # <<>> /\ entry.minimum[1] < 0
    IN  ctl.prev.sent = ToBytes(ctl.prev.value, n, signed)

\* C27 as claimed: for a control that stores what is written,
\* set_control(key, v) followed by get_control(key) returns v, and v was sent
\* little-endian, signed iff the minimum is negative, in the stored length.
C27_SetGetRoundtrip ==
    SetThenGet =>
        /\ SentLittleEndian
        /\ ctl.last.result.kind = "int"
        /\ ctl.last.result.v = ctl.prev.value

\* C27 amended: the value is sent as claimed; get_control returns v when the
\* control is at most 4 bytes long, and for a longer control it returns the
\* bytes that were sent, not an integer.
C27_SetGetRoundtripUpTo4Bytes ==
    SetThenGet =>
        /\ SentLittleEndian
        /\ IF Len(ctl.prev.sent) <= 4
           THEN /\ ctl.last.result.kind = "int"
                /\ ctl.last.result.v = ctl.prev.value
           ELSE /\ ctl.last.result.kind = "bytes"
                /\ ctl.last.result.data = ctl.prev.sent

\* C27 witness: a negative value was written to a signed control of 2 bytes
\* and read back.
C27_Witness ==
    /\ SetThenGet
    /\ ctl.prev.value = -129 /\ Len(ctl.prev.sent) = 2
    /\ ctl.last.result.kind = "int" /\ ctl.last.result.v = -129

\* ---------------------------------------------------------------- C30
\* set_control(name, bytes, raw=True) has returned, for a known control of a
\* known length and a byte string of another length.
RawSetOfWrongLength ==
    /\ ctl.last.op = "set" /\ ctl.last.raw
    /\ ctl.last.entries # <<>>
    /\ ctl.last.entries[1].length # 0
    /\ Len(ctl.last.value) # ctl.last.entries[1].length

\* C30 as claimed: a raw set whose byte string differs in length from the
\* control's length fails with ValueOutOfBounds and sends nothing.
C30_RawLengthMismatchFails ==
    RawSetOfWrongLength =>
        /\ ctl.last.error = "ValueOutOfBounds"
        /\ ctl.last.sent = <<>>

\* ---------------------------------------------------------------- C28
\* An entry was built from a pair (min_raw, max_raw) of equal length 2 or 4
\* whose unsigned minimum is greater than its unsigned maximum.
InferredPair ==
    /\ ctl.cache # <<>>
    /\ LET e == ctl.cache[1] IN
       /\ Len(e.raw_minimum) = Len(e.raw_maximum)
       /\ Len(e.raw_minimum) \in {2, 4}
       /\ UnsignedGreater(e.raw_minimum, e.raw_maximum)

\* The numeric fields of the entry are the signed readings of the answers.
FieldsSigned ==
    LET e == ctl.cache[1] IN
    /\ e.minimum = <<SignedOf(e.raw_minimum)>>
    /\ e.maximum = <<SignedOf(e.raw_maximum)>>
    /\ e.raw_default # <<>> =>
         (e.default = <<SignedOf(e.raw_default)>> /\ e.step = e.default)

\* C28 as claimed: for such a pair the numeric fields are reinterpreted as
\* signed and the signed minimum is at most the signed maximum.
C28_SignedMinAtMostMax ==
    InferredPair =>
        /\ FieldsSigned
        /\ ctl.cache[1].minimum[1] <= ctl.cache[1].maximum[1]

\* C28 amended: for such a pair the numeric fields are reinterpreted as
\* signed; the signed minimum is at most the signed maximum exactly when the
\* minimum is negative and the maximum is not (when both have the same sign,
\* the order stays the unsigned one, minimum above maximum).
C28_SignedInference ==
    InferredPair =>
        /\ FieldsSigned
        /\ (ctl.cache[1].minimum[1] <= ctl.cache[1].maximum[1])
             <=> (ctl.cache[1].minimum[1] < 0 /\ ctl.cache[1].maximum[1] >= 0)

\* C28 witness: 4-byte answers ff ff ff ff and 01 00 00 00 became -1 and 1.
C28_Witness ==
    /\ InferredPair
    /\ ctl.cache[1].raw_minimum = <<255, 255, 255, 255>>
    /\ ctl.cache[1].minimum = <<-1>> /\ ctl.cache[1].maximum = <<1>>

\* ---------------------------------------------------------------- C25
\* Some call of close() has returned or raised.
SomeCloseEnded == \E t \in Callers : race.pc[t] \in {"returned", "raised"}

\* Every thread is out of its call.
AllEnded == \A t \in RaceThreads : race.pc[t] \in {"idle", "returned", "raised"}

\* C25: under concurrent callers of close() and the poll thread's own stop,
\* no call raises and each part of the teardown (the cancel of the
\* transfers, the release of the interface, the close of the handle) is
\* carried out at most once, and exactly once when the calls have ended.
C25_StopOnceNoRaise ==
    /\ \A t \in RaceThreads : race.pc[t] # "raised"
    /\ race.cancels <= 1 /\ race.releases <= 1 /\ race.closes <= 1
    /\ (SomeCloseEnded /\ AllEnded) =>
         (race.cancels = 1 /\ race.releases = 1 /\ race.closes = 1)

\* ---------------------------------------------------------------- C31
\* The definitions applied to the controls named before the k-th one in
\* this enumeration.
UsedBefore(k) == {qk.named[j].definition : j \in 1..(k - 1)} \ {0}

\* The definitions still unused in this enumeration that the k-th named
\* control does not disqualify.
UnusedQualified(k) ==
    {i \in 1..Len(qk.definitions) :
        /\ i \notin UsedBefore(k)
        /\ ScoreOf(qk.definitions[i],
                   [selector |-> qk.named[k].selector,
                    info |-> qk.named[k].info]) # <<>>}

ScoreAt(i, k) ==
    ScoreOf(qk.definitions[i],
            [selector |-> qk.named[k].selector, info |-> qk.named[k].info])[1]

NamedUnderG == {k \in 1..Len(qk.named) : qk.named[k].guid = "G"}

\* C31: each Extension-Unit control is given the highest-scoring definition
\* among those not yet used in this enumeration and not disqualified, and no
\* definition is given to two controls.
C31_HighestUnusedWins ==
    \A k \in NamedUnderG :
        LET d == qk.named[k].definition IN
        /\ (d = 0) <=> (UnusedQualified(k) = {})
        /\ d # 0 =>
             /\ d \in UnusedQualified(k)
             /\ \A j \in UnusedQualified(k) : ScoreAt(j, k) <= ScoreAt(d, k)
        /\ \A j \in NamedUnderG :
             (j # k /\ d # 0) => qk.named[j].definition # d

\* ---------------------------------------------------------------- C32
\* The definitions that hold a selector and a name only.
SelectorOnly ==
    {i \in 1..Len(qk.definitions) :
        /\ qk.definitions[i].selector # 0
        /\ qk.definitions[i].expected_info = 0
        /\ qk.definitions[i].expected_length = 0}

\* C32: a definition with only a selector S and a name is never passed over
\* by a selector-S control of the GUID while it is unused (the control is
\* given it or another definition), it is given to selector-S controls only,
\* and to one control at most in an enumeration.
C32_SelectorOnlyMatchesOnce ==
    \A d \in SelectorOnly :
        /\ \A k \in NamedUnderG :
             /\ (qk.named[k].selector = qk.definitions[d].selector
                   /\ d \notin UsedBefore(k)) => qk.named[k].definition # 0
             /\ qk.named[k].definition = d
                  => qk.named[k].selector = qk.definitions[d].selector
        /\ Cardinality({k \in NamedUnderG : qk.named[k].definition = d}) <= 1

\* ---------------------------------------------------------------- C33
\* C33: when capture_still_image has returned or raised, the camera's
\* alternate setting, endpoint, payload size, format, frame and claim state
\* are those from before the call, and every frame of the topology has the
\* max_frame_size it had before the call.
C33_StillRestoresCamera ==
    still.outcome # "none" =>
        /\ still.cam = still.before.cam
        /\ still.sizes = still.before.sizes

\* ---------------------------------------------------------------- C34
\* C34: when control is back with the caller, on every path (normal exit,
\* exception inside the scope, failure of the claim), every detach of the
\* kernel driver has been followed by a reattach and every claim of the VC
\* interface by a release.
C34_ScopedClaimBalanced ==
    vc.outcome # "none" =>
        /\ vc.attaches = vc.detaches
        /\ vc.releases = vc.claims
        /\ ~vc.claimed

\* ---------------------------------------------------------------- C35
\* A whole Processing Unit descriptor with bControlSize = 3 and bmControls
\* = 0x000FC7 (bytes c7 0f 00) was parsed.
ParsedFC7 ==
    /\ pu.parsed /\ Len(pu.desc) >= 11
    /\ pu.desc[8] = 3 /\ SubSeq(pu.desc, 9, 11) = <<199, 15, 0>>

SelectorsOfUnit == {pu.unit[1].controls[k].selector : k \in 1..Len(pu.unit[1].controls)}
NamesOfUnit == {pu.unit[1].controls[k].name : k \in 1..Len(pu.unit[1].controls)}

\* C35 as claimed: the unit exposes exactly the selectors {1,2,3,6,...,11},
\* named Backlight Compensation, Brightness, Contrast, Hue, Saturation,
\* Sharpness, Gamma, White Balance Temperature and White Balance
\* Temperature, Auto.
C35_SelectorsWithHue ==
    ParsedFC7 =>
        /\ pu.unit # <<>>
        /\ SelectorsOfUnit = {1, 2, 3} \cup 6..11
        /\ NamesOfUnit = {ControlName(x) : x \in {1, 2, 3} \cup 6..11}

\* C35 amended: the bits set in 0x0FC7 are 0-2 and 6-11 and the selector of
\* bit i is i + 1, so the unit exposes exactly the selectors
\* {1,2,3,7,8,9,10,11,12}, named Backlight Compensation, Brightness,
\* Contrast, Saturation, Sharpness, Gamma, White Balance Temperature, White
\* Balance Temperature, Auto and Unknown Control Selector 12.
C35_SelectorsOfSetBits ==
    ParsedFC7 =>
        /\ pu.unit # <<>>
        /\ [k \in 1..Len(pu.unit[1].controls) |-> pu.unit[1].controls[k].selector]
             = <<1, 2, 3, 7, 8, 9, 10, 11, 12>>
        /\ NamesOfUnit =
             {<<"Backlight Compensation", 0>>, <<"Brightness", 0>>,
              <<"Contrast", 0>>, <<"Saturation", 0>>, <<"Sharpness", 0>>,
              <<"Gamma", 0>>, <<"White Balance Temperature", 0>>,
              <<"White Balance Temperature, Auto", 0>>,
              <<"Unknown Control Selector", 12>>}

\* C35 witness: that descriptor was parsed to a unit of nine controls.
C35_Witness ==
    /\ ParsedFC7
    /\ pu.unit # <<>> /\ Len(pu.unit[1].controls) = 9

\* ---------------------------------------------------------------- C36
\* A close() of the running stream has returned (its join is over).
StopReturned == Has(log, "join")

\* C36: once stop() has returned, no step submits a transfer, passes a
\* packet to the assembler or adds a frame to the queue.
C36_NothingAfterStop ==
    [][StopReturned =>
         /\ \A i \in Transfers : xfer'[i] = "submitted" => xfer[i] = "submitted"
         /\ asm' = asm
         /\ SeqsIn(queue') \subseteq SeqsIn(queue)]_vars

\* ---------------------------------------------------------------- C37
\* How often transfer i waits in the resubmit queue.
TimesQueued(i) == Cardinality({k \in 1..Len(resubmitQ) : resubmitQ[k] = i})

SubmittedTransfers == {i \in Transfers : xfer[i] = "submitted"}

\* Never in two states at once: a transfer that waits in the resubmit queue
\* waits there once and is neither submitted nor in its callback, the one in
\* its callback is the only one there; the submitted transfers are at most
\* the N of the pool.
AtMostOneState ==
    /\ \A i \in Transfers :
         /\ TimesQueued(i) <= 1
         /\ (TimesQueued(i) = 1) <=> (xfer[i] = "queued")
         /\ (xfer[i] = "callback") <=> (cbXfer = i)
         /\ i \notin pool => xfer[i] = "idle"
    /\ Cardinality(SubmittedTransfers) <= Cardinality(pool)

\* Every transfer of the pool is submitted, in its callback or queued.
OneOfThree == \A i \in pool : xfer[i] \in {"submitted", "callback", "queued"}

FailedAfterOpen ==
    /\ sa.outcome \in {"UVCError", "AttributeError", "USBError"}
    /\ sa.step \in {"claim_vs", "alt0", "probe", "alt", "submit"}
C38_FailedStartCleansUp ==
    FailedAfterOpen => (sa.fresh = NoHandle /\ ~sa.asyncStream)

\* C39: successive read_frame calls lose no payload: when a call returned
\* because a packet's FID toggled, the next call starts its frame with that
\* packet (its FID, its payload, one packet seen).
ReturnedByToggle == rf.pc = "returned" /\ rf.toggle # NoToggle
C39_TogglePacketCarried ==
    [][(ReturnedByToggle /\ rf'.pc = "loop")
         => /\ rf'.loc.fid = rf.toggle.fid
            /\ rf'.loc.len = rf.toggle.len
            /\ rf'.loc.seen = 1]_vars

\* C40: read_frame always comes back: a call that is in its loop returns a
\* frame or raises, also when the device sends no complete valid frame.
C40_ReadFrameComesBack ==
    (rf.pc = "loop") ~> (rf.pc \in {"returned", "raised"})

====
